---- MODULE Spec2Model ----
(***************************************************************************)
(* A model of the BSA/BA2 archive tool: the hierarchical selection tree of  *)
(* the GUI (src/gui/state.rs), the three archive readers and their batch    *)
(* extraction (src/archive/reader.rs, ba2_reader.rs, tes3_reader.rs,        *)
(* mod.rs) and the two archive builders (src/archive/writer.rs,             *)
(* ba2_writer.rs).                                                          *)
(*                                                                          *)
(* Strings are sequences of one-character strings, so that the code's       *)
(* replace / split / join / to_lowercase / rfind are computed, not assumed. *)
(* Indices into the tree arena are the code's 0-based indices: node i of    *)
(* the code is element i+1 of the TLA+ sequence.  Option<usize> is <<>> for *)
(* None and <<i>> for Some(i).                                              *)
(***************************************************************************)
EXTENDS Integers, Sequences, FiniteSets, TLC

VARIABLES
    tree,            \* AppState.tree : Vec<InternalNode>
    search_filter,   \* AppState.search_filter : String
    loaded_paths,    \* history: the paths last handed to build_tree_from_paths
    load_state,      \* "new", "built", "used" (a handler ran since) or "overflow"
    shared,          \* the other fields of the AppState behind the StateHandle
    loads,           \* the background load threads: their position and new_state
    format,          \* the ArchiveFormat detect_format returns for the archive
    archive,         \* the entries of the archive file, in physical order
    wanted_files,    \* the wanted_files argument of extract_archive_files_batch
    caller,          \* "gui" (setup_extract's closure) or "cli" (cli_unpack's)
    bpc,             \* where the batch call is: "idle", "parallel", "returned"
    units,           \* the Vec `entries` of the reader: positions in `archive`
    ustate,          \* per unit: where its closure of try_for_each is
    uerr,            \* per unit: the error its closure returned, "" if none
    full,            \* rayon's shared stop flag of try_for_each
    extracted,       \* the reader's AtomicUsize `extracted`
    sink_calls,      \* per archive position: how often the callback was invoked
    cancelled,       \* AppState.cancelled : Arc<AtomicBool>
    observed,        \* history: some callback has loaded cancelled = true
    started_late,    \* history: a unit began its work after `observed`
    caller_count,    \* the caller's own AtomicUsize `extracted`
    written,         \* the output files written by the callback
    result,          \* the Result<usize> of the batch call, None while running
    scan_pos,        \* how many entries the reader's scan loop has examined
    file_path,       \* the file_path argument of extract_archive_file
    found,           \* the Result<Vec<u8>> of extract_archive_file, None before
    builder,         \* which builder is in use: "bsa" (BsaBuilder) or "ba2"
    files,           \* the builder's map `files`: normalized key -> data
    adds,            \* history: the add_file calls made, in order
    builds,          \* per build of the file set: the entries and the archive
    roundtrip,       \* the listing of the built archive with each extraction
    build_result,    \* the Result<()> of the last build_with_progress, None before
    progress_calls,  \* how often the progress callback of a build was invoked
    out_file,        \* the archive file at output_path, None while it does not exist
    out_dirs,        \* whether the parent directories of output_path were created
    archive_path,    \* the file name of the path handed to detect_format
    openable,        \* whether File::open(path) succeeds
    signature,       \* what guess_format finds in the file's header
    listed,          \* the Result of list_archive_files, None before the call
    opens,           \* how often the batch call has opened the file at archive_path
    game_version,    \* the GameVersion chosen for packing
    pack_mode,       \* "cli" (cli_pack) or "gui" (pack_files)
    pack_list,       \* the files to pack that have not been read yet
    pack_result,     \* the Result of cli_pack / pack_files, None while running
    output_path,     \* the components of the output_path of the pack
    ba2_format,      \* the Ba2Format handed to Ba2Builder::with_format, "" if none
    build_path,      \* history: the build function the pack has run, "" before
    ms_filter,       \* the search_filter matches_search is applied with
    ms_path,         \* the path of the node matches_search is applied to
    ms_result,       \* the value matches_search returned, None before the call
    gv_index,        \* the index handed to GameVersion::from_index
    gv_name,         \* the name handed to GameVersion::from_cli_name
    gv_by_index,     \* what from_index returned, None before the call
    gv_by_name,      \* what from_cli_name returned, None before the call
    bw_kind,         \* the build path: "bsa", "general" (BA2) or "dx10" (BA2 textures)
    bw_compress,     \* should_compress / compression != Ba2CompressionFormat::None
    bw_entries,      \* the Vec `entries` of build_with_progress
    bw_pc,           \* where the build is: "idle", "parallel", "write", "returned"
    bw_state,        \* per entry: where its closure of par_iter().map() is
    bw_current,      \* per entry: the local `current` of its closure, 0 before
    processed_count, \* the AtomicUsize `processed_count`
    bw_calls,        \* the invocations of the progress callback, in order
    bw_saved,        \* the error collect() has saved, None while there is none
    bw_full,         \* the stop flag of collect() into a Result
    bw_stored,       \* per entry: how its bytes are stored, "" before
    bw_result,       \* the Result<()> of build_with_progress, None while running
    bw_dest,         \* the file at output_path and whether its parents were created
    is_processing,   \* the window's property is_processing
    jobs,            \* the threads spawned by on_open_file, on_extract, on_pack
    arcs,            \* every AtomicBool created as a `cancelled` flag, by creation
    state_arc,       \* which of them the AppState behind the StateHandle holds
    loaded,          \* what the shared AppState holds: "none", "archive", "folder"
    alive            \* the process has not been aborted

treeVars == <<tree, search_filter, loaded_paths, load_state>>

batchVars == <<format, archive, wanted_files, caller, bpc, units, ustate, uerr, full,
               extracted, sink_calls, cancelled, observed, started_late,
               caller_count, written, result, scan_pos>>

oneVars == <<file_path, found>>

buildOut == <<build_result, progress_calls, out_file, out_dirs>>

buildVars == <<builder, files, adds, builds, roundtrip, buildOut>>

detVars == <<archive_path, openable, signature, listed, opens>>

packVars == <<game_version, pack_mode, pack_list, pack_result, output_path, ba2_format,
              build_path>>

matchVars == <<ms_filter, ms_path, ms_result>>

loadVars == <<shared, loads>>

tableVars == <<gv_index, gv_name, gv_by_index, gv_by_name>>

encVars == <<bw_kind, bw_compress, bw_entries, bw_pc, bw_state, bw_current,
             processed_count, bw_calls, bw_saved, bw_full, bw_stored, bw_result, bw_dest>>

jobVars == <<is_processing, jobs, arcs, state_arc, loaded, alive>>

moreVars == <<encVars, jobVars>>

vars == <<treeVars, loadVars, batchVars, oneVars, buildVars, detVars, packVars, matchVars,
          tableVars, moreVars>>

\* what the handlers of one part of the program leave alone
\* what the load threads leave alone besides the shared state
notLoad == <<batchVars, oneVars, buildVars, detVars, packVars, matchVars, tableVars,
            moreVars>>
notTree == <<loadVars, batchVars, oneVars, buildVars, detVars, packVars, matchVars, tableVars,
            moreVars>>
notBatch == <<treeVars, loadVars, oneVars, buildVars, packVars, matchVars, tableVars,
            moreVars>>
notOne == <<treeVars, loadVars, buildVars, packVars, matchVars, tableVars,
            moreVars>>
notBuild == <<treeVars, loadVars, batchVars, oneVars, detVars, matchVars, tableVars,
            moreVars>>

(***************************************************************************)
(* Bounds of the model                                                      *)
(***************************************************************************)
\* largest number of file paths handed to one build_tree_from_paths call
MaxPaths == 3
\* largest number of background loads started
MaxLoads == 2
\* how far the indices handed to from_index go beyond the table
MaxBeyond == 2
\* largest number of entries of an archive
MaxEntries == 3
\* largest number of add_file calls on one builder
MaxAdds == 3
\* largest number of files handed to one pack
MaxPack == 2
\* longest search filter and longest node path matches_search is applied to
MaxFilter == 3
MaxText == 3

(***************************************************************************)
(* Strings                                                                  *)
(***************************************************************************)
BS == "\\"
FS == "/"

\* char::to_lowercase on the letters of the model's alphabet
LowerChar(c) ==
    CASE c = "A" -> "a"
      [] c = "B" -> "b"
      [] c = "C" -> "c"
      [] c = "D" -> "d"
      [] c = "E" -> "e"
      [] c = "F" -> "f"
      [] c = "G" -> "g"
      [] c = "I" -> "i"
      [] c = "K" -> "k"
      [] c = "L" -> "l"
      [] c = "M" -> "m"
      [] c = "N" -> "n"
      [] c = "O" -> "o"
      [] c = "R" -> "r"
      [] c = "S" -> "s"
      [] c = "T" -> "t"
      [] c = "U" -> "u"
      [] c = "V" -> "v"
      [] c = "W" -> "w"
      [] c = "X" -> "x"
      [] c = "Y" -> "y"
      [] OTHER -> c

\* str::to_lowercase
ToLower(s) == [i \in 1..Len(s) |-> LowerChar(s[i])]

\* str::replace(from, to) for one-character patterns
Replace(s, from, to) == [i \in 1..Len(s) |-> IF s[i] = from THEN to ELSE s[i]]

\* position (1-based) of the last occurrence of c in s, 0 when absent: str::rfind
RFind(s, c) ==
    LET hits == {i \in 1..Len(s) : s[i] = c}
    IN  IF hits = {} THEN 0 ELSE CHOOSE i \in hits : \A j \in hits : j <= i

\* position (1-based) of the first occurrence of c in s, 0 when absent
FindChar(s, c) ==
    LET hits == {i \in 1..Len(s) : s[i] = c}
    IN  IF hits = {} THEN 0 ELSE CHOOSE i \in hits : \A j \in hits : i <= j

\* str::split(sep).collect(): always at least one part (possibly empty)
RECURSIVE Split(_, _)
Split(s, sep) ==
    LET k == FindChar(s, sep)
    IN  IF k = 0 THEN <<s>>
        ELSE <<SubSeq(s, 1, k - 1)>> \o Split(SubSeq(s, k + 1, Len(s)), sep)

\* [parts].join(sep)
RECURSIVE Join(_, _)
Join(parts, sep) ==
    IF Len(parts) = 0 THEN <<>>
    ELSE IF Len(parts) = 1 THEN parts[1]
    ELSE parts[1] \o <<sep>> \o Join(Tail(parts), sep)

\* the code point order of the characters of the model's alphabet
CharCode(c) ==
    CASE c = "." -> 46
      [] c = "/" -> 47
      [] c = "A" -> 65
      [] c = "B" -> 66
      [] c = "C" -> 67
      [] c = "D" -> 68
      [] c = "E" -> 69
      [] c = "F" -> 70
      [] c = "\\" -> 92
      [] c = "a" -> 97
      [] c = "b" -> 98
      [] c = "c" -> 99
      [] c = "d" -> 100
      [] c = "e" -> 101
      [] c = "f" -> 102
      [] c = "g" -> 103
      [] OTHER -> 120

\* String::cmp = Less (byte-wise lexicographic order)
RECURSIVE StrLess(_, _)
StrLess(a, b) ==
    IF Len(b) = 0 THEN FALSE
    ELSE IF Len(a) = 0 THEN TRUE
    ELSE IF CharCode(a[1]) < CharCode(b[1]) THEN TRUE
    ELSE IF CharCode(a[1]) > CharCode(b[1]) THEN FALSE
    ELSE StrLess(Tail(a), Tail(b))

\* all orders in which a finite set can be iterated (HashSet / HashMap iteration)
RECURSIVE Orders(_)
Orders(S) ==
    IF S = {} THEN {<<>>}
    ELSE UNION {{<<x>> \o o : o \in Orders(S \ {x})} : x \in S}

Range(s) == {s[i] : i \in 1..Len(s)}

(***************************************************************************)
(* TreeModel: construction (state.rs, build_tree_from_paths/build_tree_dfs) *)
(***************************************************************************)
None == <<>>
Some(i) == <<i>>

\* a node that is given the depth of its parent instead of its own
InternalNodeFlat(path, name, depth, is_folder, parent) ==
    [path |-> path, name |-> name, depth |-> IF depth > 0 THEN depth - 1 ELSE 0,
     is_folder |-> is_folder, expanded |-> TRUE, selected |-> TRUE,
     partially_selected |-> FALSE, children |-> <<>>, parent |-> parent]

\* InternalNode as pushed by build_tree_from_paths / build_tree_dfs
InternalNode(path, name, depth, is_folder, parent) ==
    [path |-> path, name |-> name, depth |-> depth, is_folder |-> is_folder,
     expanded |-> TRUE, selected |-> TRUE, partially_selected |-> FALSE,
     children |-> <<>>, parent |-> parent]

\* file_path.replace('/', "\\").split('\\')
Parts(p) == Split(Replace(p, FS, BS), BS)

\* the HashSet `folders`: every proper prefix parts[..=i].join("\\")
Folders(paths) ==
    UNION {{Join(SubSeq(Parts(paths[k]), 1, i), BS) :
                i \in 1..(Len(Parts(paths[k])) - 1)} : k \in 1..Len(paths)}

\* parts.last()
NameOf(p) == LET parts == Split(p, BS) IN parts[Len(parts)]

\* parts[..len-1].join("\\"), or the empty string for a single component
ParentPathOf(p) ==
    LET parts == Split(p, BS)
    IN  IF Len(parts) > 1 THEN Join(SubSeq(parts, 1, Len(parts) - 1), BS) ELSE <<>>

\* a comparator that orders the names as they are written, case included
ChildLessCaseSensitive(a, b) ==
    IF a.is_folder /\ ~b.is_folder THEN TRUE
    ELSE IF ~a.is_folder /\ b.is_folder THEN FALSE
    ELSE StrLess(a.name, b.name)

\* the comparator of children.sort_by: TRUE when a must come before b
ChildLess(a, b) ==
    IF a.is_folder /\ ~b.is_folder THEN TRUE
    ELSE IF ~a.is_folder /\ b.is_folder THEN FALSE
    ELSE StrLess(ToLower(a.name), ToLower(b.name))

\* slice::sort_by is a stable sort: an element goes after its equals
RECURSIVE InsertChild(_, _)
InsertChild(sorted, x) ==
    IF Len(sorted) = 0 THEN <<x>>
    ELSE IF ChildLess(x, sorted[Len(sorted)])
         THEN InsertChild(SubSeq(sorted, 1, Len(sorted) - 1), x) \o <<sorted[Len(sorted)]>>
         ELSE sorted \o <<x>>

RECURSIVE SortChildren(_)
SortChildren(s) ==
    IF Len(s) = 0 THEN <<>>
    ELSE InsertChild(SortChildren(SubSeq(s, 1, Len(s) - 1)), s[Len(s)])

\* the unsorted vector children_map[parent_path]: first the folders, in the
\* iteration order of the HashSet, then the files, in the order of `paths`
RawChildren(paths, folderOrder, parent_path) ==
    LET fo == SelectSeq(folderOrder, LAMBDA f : ParentPathOf(f) = parent_path)
        norm == [k \in 1..Len(paths) |-> Replace(paths[k], FS, BS)]
        fi == SelectSeq(norm, LAMBDA p : ParentPathOf(p) = parent_path)
    IN  [k \in 1..Len(fo) |-> [name |-> NameOf(fo[k]), path |-> fo[k], is_folder |-> TRUE]]
        \o [k \in 1..Len(fi) |-> [name |-> NameOf(fi[k]), path |-> fi[k], is_folder |-> FALSE]]

\* children_map.get(parent_path) after the sort; <<>> stands for a missing key
ChildrenMapGet(paths, folderOrder, parent_path) ==
    SortChildren(RawChildren(paths, folderOrder, parent_path))

\* build_tree_dfs: push every child of parent_path, recursing into folders
RECURSIVE BuildTreeDfs(_, _, _, _, _)
RECURSIVE DfsLoop(_, _, _, _, _, _)
DfsLoop(t, paths, folderOrder, children, k, parent_idx) ==
    IF k > Len(children) THEN t
    ELSE LET c == children[k]
             idx == Len(t)
             pushed == Append(t, InternalNode(c.path, c.name, Len(Split(c.path, BS)),
                                              c.is_folder, Some(parent_idx)))
             linked == [pushed EXCEPT ![parent_idx + 1].children = Append(@, idx)]
             after == IF c.is_folder
                      THEN BuildTreeDfs(linked, paths, folderOrder, c.path, idx)
                      ELSE linked
         IN  DfsLoop(after, paths, folderOrder, children, k + 1, parent_idx)

BuildTreeDfs(t, paths, folderOrder, parent_path, parent_idx) ==
    DfsLoop(t, paths, folderOrder, ChildrenMapGet(paths, folderOrder, parent_path),
            1, parent_idx)

\* build_tree_from_paths: clear, push the root, fill depth-first
BuildTreeFromPaths(paths, root_name, folderOrder) ==
    BuildTreeDfs(<<InternalNode(<<>>, root_name, 0, TRUE, None)>>,
                 paths, folderOrder, <<>>, 0)

(***************************************************************************)
(* TreeModel: the operations of AppState (state.rs)                         *)
(***************************************************************************)
Node(t, i) == t[i + 1]

\* an expansion toggle that does not ask whether the node is a folder
ToggleExpandAnyNode(t, index) ==
    IF index < Len(t)
    THEN [t EXCEPT ![index + 1].expanded = ~@]
    ELSE t

\* toggle_expand
ToggleExpandOp(t, index) ==
    IF index < Len(t) /\ Node(t, index).is_folder
    THEN [t EXCEPT ![index + 1].expanded = ~@]
    ELSE t

\* a selection that is stored on the node alone, not on what is below it
SetSelectedNodeOnly(t, index, selected) ==
    [t EXCEPT ![index + 1].selected = selected,
              ![index + 1].partially_selected = FALSE]

\* set_selected_recursive: the node, then each child in order
RECURSIVE SetSelectedRecursive(_, _, _)
RECURSIVE SetSelectedChildren(_, _, _, _)
SetSelectedChildren(t, children, k, selected) ==
    IF k > Len(children) THEN t
    ELSE SetSelectedChildren(SetSelectedRecursive(t, children[k], selected),
                             children, k + 1, selected)

SetSelectedRecursive(t, index, selected) ==
    LET t1 == [t EXCEPT ![index + 1].selected = selected,
                        ![index + 1].partially_selected = FALSE]
    IN  SetSelectedChildren(t1, Node(t1, index).children, 1, selected)

\* update_parent_selection with `&& !all_selected` dropped from partially_selected
RECURSIVE UpdateParentSelectionKeepsPartial(_, _)
UpdateParentSelectionKeepsPartial(t, index) ==
    IF Node(t, index).parent = None THEN t
    ELSE LET parent_idx == Node(t, index).parent[1]
             children == Node(t, parent_idx).children
             all_selected == \A k \in 1..Len(children) :
                 Node(t, children[k]).selected /\ ~Node(t, children[k]).partially_selected
             any_selected == \E k \in 1..Len(children) :
                 Node(t, children[k]).selected \/ Node(t, children[k]).partially_selected
             t1 == [t EXCEPT ![parent_idx + 1].selected = all_selected,
                             ![parent_idx + 1].partially_selected = any_selected]
         IN  UpdateParentSelectionKeepsPartial(t1, parent_idx)

\* update_parent_selection: recompute every ancestor from its immediate children
RECURSIVE UpdateParentSelection(_, _)
UpdateParentSelection(t, index) ==
    IF Node(t, index).parent = None THEN t
    ELSE LET parent_idx == Node(t, index).parent[1]
             children == Node(t, parent_idx).children
             all_selected == \A k \in 1..Len(children) :
                 Node(t, children[k]).selected /\ ~Node(t, children[k]).partially_selected
             any_selected == \E k \in 1..Len(children) :
                 Node(t, children[k]).selected \/ Node(t, children[k]).partially_selected
             t1 == [t EXCEPT ![parent_idx + 1].selected = all_selected,
                             ![parent_idx + 1].partially_selected =
                                 any_selected /\ ~all_selected]
         IN  UpdateParentSelection(t1, parent_idx)

\* toggle_select
ToggleSelectOp(t, index) ==
    IF index < Len(t)
    THEN UpdateParentSelection(
             SetSelectedRecursive(t, index, ~Node(t, index).selected), index)
    ELSE t

\* a select-all that sets selected and leaves partially_selected as it is
SelectAllKeepsPartial(t) ==
    [i \in 1..Len(t) |-> [t[i] EXCEPT !.selected = TRUE]]

\* select_all
SelectAllOp(t) ==
    [i \in 1..Len(t) |-> [t[i] EXCEPT !.selected = TRUE, !.partially_selected = FALSE]]

\* a select-none that also forgets the children of every node
SelectNoneDropsChildren(t) ==
    [i \in 1..Len(t) |-> [t[i] EXCEPT !.selected = FALSE, !.partially_selected = FALSE,
                                      !.children = <<>>]]

\* select_none
SelectNoneOp(t) ==
    [i \in 1..Len(t) |-> [t[i] EXCEPT !.selected = FALSE, !.partially_selected = FALSE]]

\* a listing of the selection that does not leave the folders out
GetSelectedFilesWithFolders(t) ==
    LET sel == SelectSeq(t, LAMBDA n : n.selected)
    IN  [k \in 1..Len(sel) |-> sel[k].path]

\* get_selected_files
GetSelectedFiles(t) ==
    LET sel == SelectSeq(t, LAMBDA n : ~n.is_folder /\ n.selected)
    IN  [k \in 1..Len(sel) |-> sel[k].path]

\* selected_count
SelectedCount(t) == Len(SelectSeq(t, LAMBDA n : ~n.is_folder /\ n.selected))

\* total_count
TotalCount(t) == Len(SelectSeq(t, LAMBDA n : ~n.is_folder))

(***************************************************************************)
(* The inputs of the tree model                                             *)
(***************************************************************************)
\* the file paths an archive listing or a folder walk may produce
PathPool ==
    << <<"a", "/", "b">>,
       <<"a", "\\", "c">>,
       <<"a", "/", "D", "/", "e">>,
       <<"f">>,
       <<"B", "/", "g">> >>

\* the path lists: up to MaxPaths paths of the pool, in the pool's order
PathLists ==
    {[k \in 1..Len(ix) |-> PathPool[ix[k]]] :
        ix \in {s \in UNION {[1..n -> 1..Len(PathPool)] : n \in 0..MaxPaths} :
                    \A k \in 1..(Len(s) - 1) : s[k] < s[k + 1]}}

\* a listing of three files, two of them in one folder
ExamplePaths ==
    << <<"a", "/", "b", ".", "t", "x", "t">>,
       <<"a", "/", "c", ".", "t", "x", "t">>,
       <<"d", ".", "t", "x", "t">> >>

\* a listing whose entry name begins with a separator
RootedPaths == << <<"\\", "b">> >>

\* the path lists handed to build_tree_from_paths
LoadLists == PathLists \cup {ExamplePaths, RootedPaths}

RootName == <<"r">>

\* build_tree_dfs(children_map, "", 0) never returns when the folder "" is a
\* child of the key "": the folder's full_path is the key being expanded
BuildOverflows(paths) == <<>> \in Folders(paths)

\* every tree build_tree_from_paths can produce from a path list of the model,
\* with the list it was built from
BuiltTrees ==
    UNION {{[paths |-> ps, tree |-> BuildTreeFromPaths(ps, RootName, fo)] :
               fo \in Orders(Folders(ps))} :
              ps \in {l \in LoadLists : ~BuildOverflows(l)}}

\* the builds that never return: no tree comes out of them
Overflows == {[paths |-> ps, tree |-> <<>>] : ps \in {l \in LoadLists : BuildOverflows(l)}}

\* the search texts typed into the search box
SearchPool ==
    {<<>>, <<"a">>, <<"*", "e">>, <<"b">>, <<"*", ".", "t", "x", "t">>}

(***************************************************************************)
(* The GUI's tree handlers                                                  *)
(***************************************************************************)
\* the fields of AppState::new besides tree, search_filter and cancelled
NewFields ==
    [archive_path |-> None, entries |-> <<>>, pack_mode |-> FALSE,
     source_folder |-> None]

\* AppState::new, and no load running in the background
InitTree ==
    /\ tree = <<>>
    /\ search_filter = <<>>
    /\ loaded_paths = None
    /\ load_state = "new"
    /\ shared = NewFields
    /\ loads = <<>>

\* no archive is being extracted
BatchIdle ==
    /\ format = "Bsa"
    /\ archive = <<>>
    /\ wanted_files = <<>>
    /\ caller = "gui"
    /\ bpc = "idle"
    /\ units = <<>>
    /\ ustate = <<>>
    /\ uerr = <<>>
    /\ full = FALSE
    /\ extracted = 0
    /\ sink_calls = <<>>
    /\ cancelled = FALSE
    /\ observed = FALSE
    /\ started_late = FALSE
    /\ caller_count = 0
    /\ written = {}
    /\ result = None
    /\ scan_pos = 0

\* no extract_archive_file call has been made
OneIdle ==
    /\ file_path = <<>>
    /\ found = None

\* no builder has been created
BuildIdle ==
    /\ builder = "bsa"
    /\ files = <<>>
    /\ adds = <<>>
    /\ builds = <<>>
    /\ roundtrip = None
    /\ build_result = None
    /\ progress_calls = 0
    /\ out_file = None
    /\ out_dirs = FALSE

\* detect_format has not been called
DetIdle ==
    /\ archive_path = <<>>
    /\ openable = FALSE
    /\ signature = "None"
    /\ listed = None
    /\ opens = 0

\* no pack has been started
PackIdle ==
    /\ game_version = "Fallout4Fo76"
    /\ pack_mode = "gui"
    /\ pack_list = <<>>
    /\ pack_result = None
    /\ output_path = <<>>
    /\ ba2_format = ""
    /\ build_path = ""

\* matches_search has not been called
MatchIdle ==
    /\ ms_filter = <<>>
    /\ ms_path = <<>>
    /\ ms_result = None

\* no lookup in the game profile table has been made
TableIdle ==
    /\ gv_index = 0
    /\ gv_name = <<>>
    /\ gv_by_index = None
    /\ gv_by_name = None

\* no build_with_progress is under way
EncIdle ==
    /\ bw_kind = "bsa"
    /\ bw_compress = FALSE
    /\ bw_entries = <<>>
    /\ bw_pc = "idle"
    /\ bw_state = <<>>
    /\ bw_current = <<>>
    /\ processed_count = 0
    /\ bw_calls = <<>>
    /\ bw_saved = None
    /\ bw_full = FALSE
    /\ bw_stored = <<>>
    /\ bw_result = None
    /\ bw_dest = [file |-> "absent", dirs |-> FALSE]

\* a window just opened on a new AppState
JobIdle ==
    /\ is_processing = FALSE
    /\ jobs = <<>>
    /\ arcs = <<FALSE>>
    /\ state_arc = 1
    /\ loaded = "none"
    /\ alive = TRUE

MoreIdle == EncIdle /\ JobIdle

RestIdle == DetIdle /\ PackIdle /\ MatchIdle /\ TableIdle /\ MoreIdle

\* a handler ran on the tree since it was built
Used == IF load_state = "built" THEN "used" ELSE load_state

\* load_archive / load_folder on a fresh AppState, swapped into the shared
\* state; a build that overflows the stack ends the process
LoadTree ==
    /\ load_state # "overflow"
    /\ \E b \in BuiltTrees \cup Overflows :
          /\ loaded_paths' = Some(b.paths)
          /\ IF BuildOverflows(b.paths)
             THEN /\ load_state' = "overflow"
                  /\ UNCHANGED <<tree, search_filter>>
             ELSE /\ tree' = b.tree
                  /\ search_filter' = <<>>
                  /\ load_state' = "built"
          /\ UNCHANGED notTree

ToggleSelect ==
    \E index \in 0..Len(tree) :
        /\ load_state # "overflow"
        /\ tree' = ToggleSelectOp(tree, index)
        /\ load_state' = Used
        /\ UNCHANGED <<search_filter, loaded_paths>>
        /\ UNCHANGED notTree

ToggleExpand ==
    \E index \in 0..Len(tree) :
        /\ load_state # "overflow"
        /\ tree' = ToggleExpandOp(tree, index)
        /\ load_state' = Used
        /\ UNCHANGED <<search_filter, loaded_paths>>
        /\ UNCHANGED notTree

SelectAll ==
    /\ load_state # "overflow"
    /\ tree' = SelectAllOp(tree)
    /\ load_state' = Used
    /\ UNCHANGED <<search_filter, loaded_paths>>
    /\ UNCHANGED notTree

SelectNone ==
    /\ load_state # "overflow"
    /\ tree' = SelectNoneOp(tree)
    /\ load_state' = Used
    /\ UNCHANGED <<search_filter, loaded_paths>>
    /\ UNCHANGED notTree

\* set_search
SetSearch ==
    \E filter \in SearchPool :
        /\ load_state # "overflow"
        /\ search_filter' = filter
        /\ load_state' = Used
        /\ UNCHANGED <<tree, loaded_paths>>
        /\ UNCHANGED notTree

Init == InitTree /\ BatchIdle /\ OneIdle /\ BuildIdle /\ RestIdle

Next ==
    \/ LoadTree
    \/ ToggleSelect
    \/ ToggleExpand
    \/ SelectAll
    \/ SelectNone
    \/ SetSearch

\* the tree model under all its handlers
Spec == Init /\ [][Next]_vars

NextToggle ==
    \/ LoadTree
    \/ ToggleSelect

\* the tree model under loads and toggle_select only
SpecToggle == Init /\ [][NextToggle]_vars

(***************************************************************************)
(* Loading in the background: setup_open_file, setup_open_folder (state.rs) *)
(***************************************************************************)
\* what the user picks: an archive that lists, an archive that does not, a
\* folder with a file, an empty folder
LoadSources ==
    {[kind |-> "archive", name |-> <<"x">>, ok |-> TRUE, paths |-> <<PathPool[1]>>],
     [kind |-> "archive", name |-> <<"y">>, ok |-> FALSE, paths |-> <<>>],
     [kind |-> "folder", name |-> <<"d">>, ok |-> TRUE, paths |-> <<PathPool[4]>>],
     [kind |-> "folder", name |-> <<"e">>, ok |-> FALSE, paths |-> <<>>]}

\* let mut new_state = AppState::new()
NewState == [tree |-> <<>>, search_filter |-> <<>>, fields |-> NewFields]

\* load_archive / load_folder up to the call of build_tree_from_paths: the
\* fields are assigned, list_archive_files may fail, an empty folder bails
LoadFields(src) ==
    IF src.kind = "archive"
    THEN [archive_path |-> Some(src.name),
          entries |-> IF src.ok THEN src.paths ELSE <<>>,
          pack_mode |-> FALSE, source_folder |-> None]
    ELSE [archive_path |-> None, entries |-> <<>>, pack_mode |-> TRUE,
          source_folder |-> Some(src.name)]

\* a load thread that writes the tree it builds where the readers look
ObservedTreeInPlace(old, partial) == partial

\* the tree behind the StateHandle while a load thread works on its own
\* new_state: the thread's closure does not touch `state`
ObservedTree(old, partial) == old

\* on_open_file / on_open_folder: the dialog returned a path, the thread is spawned
LoadSpawn ==
    \E src \in LoadSources :
        /\ load_state # "overflow"
        /\ Len(loads) < MaxLoads
        /\ loads' = Append(loads, [src |-> src, pc |-> "spawned", new_state |-> NewState])
        /\ UNCHANGED <<treeVars, shared, notLoad>>

\* the load thread: load_archive / load_folder on new_state, first up to the
\* root pushed by build_tree_from_paths, then to the end of build_tree_dfs
LoadRun ==
    \E i \in 1..Len(loads) :
        LET l == loads[i]
            step ==
                IF l.pc = "spawned"
                THEN IF l.src.ok
                     THEN {[l EXCEPT !.pc = "building",
                                     !.new_state.fields = LoadFields(l.src),
                                     !.new_state.tree =
                                         <<InternalNode(<<>>, RootName, 0, TRUE, None)>>]}
                     ELSE {[l EXCEPT !.pc = "err",
                                     !.new_state.fields = LoadFields(l.src)]}
                ELSE {[l EXCEPT !.pc = "done", !.new_state.tree = b.tree] :
                          b \in {x \in BuiltTrees : x.paths = l.src.paths}}
        IN  /\ l.pc \in {"spawned", "building"}
            /\ \E n \in step :
                  /\ loads' = [loads EXCEPT ![i] = n]
                  /\ tree' = ObservedTree(tree, n.new_state.tree)
            /\ UNCHANGED <<search_filter, loaded_paths, load_state, shared, notLoad>>

\* the closure handed to upgrade_in_event_loop: on Ok the whole AppState is
\* replaced under the lock, on Err only the status text changes
LoadDeliver ==
    \E i \in 1..Len(loads) :
        /\ loads[i].pc \in {"done", "err"}
        /\ loads' = [loads EXCEPT ![i].pc = "delivered"]
        /\ IF loads[i].pc = "done"
           THEN /\ tree' = loads[i].new_state.tree
                /\ search_filter' = loads[i].new_state.search_filter
                /\ shared' = loads[i].new_state.fields
                /\ loaded_paths' = Some(loads[i].src.paths)
                /\ load_state' = "built"
           ELSE UNCHANGED <<treeVars, shared>>
        /\ UNCHANGED notLoad

NextLoad ==
    \/ LoadSpawn
    \/ LoadRun
    \/ LoadDeliver
    \/ ToggleSelect
    \/ ToggleExpand
    \/ SetSearch

\* loads running in the background while the handlers work on the shared state
SpecLoad == Init /\ [][NextLoad]_vars

(***************************************************************************)
(* Archives as the readers see them                                         *)
(*                                                                          *)
(* An entry is what the archive codec yields for one stored file: the name  *)
(* of its directory key (TES4 only, the empty string otherwise), the name   *)
(* of its file key, its contents, and whether its stored bytes decode.      *)
(***************************************************************************)
Entry(dir, name, data, decodes) ==
    [dir |-> dir, name |-> name, data |-> data, decodes |-> decodes]

Formats == {"Tes3Bsa", "Bsa", "Ba2"}

\* the path list_files reports for an entry (reader.rs, ba2_reader.rs, tes3_reader.rs)
EntryPath(fmt, e) ==
    IF fmt = "Bsa"
    THEN IF e.dir = <<>> \/ e.dir = <<".">> THEN e.name
         ELSE e.dir \o <<BS>> \o e.name
    ELSE e.name

\* list_archive_files
ListArchiveFiles(fmt, arch) == [k \in 1..Len(arch) |-> EntryPath(fmt, arch[k])]

\* the HashSet `wanted` extract_archive_files_batch builds for each format
WantedSet(fmt, wanted) ==
    {IF fmt = "Tes3Bsa" THEN ToLower(wanted[k])
     ELSE IF fmt = "Bsa" THEN ToLower(Replace(wanted[k], FS, BS))
     ELSE ToLower(Replace(wanted[k], BS, FS)) : k \in 1..Len(wanted)}

\* the key `lookup` a reader's scan computes for an entry
LookupKey(fmt, e) ==
    IF fmt = "Ba2" THEN ToLower(Replace(EntryPath(fmt, e), BS, FS))
    ELSE ToLower(EntryPath(fmt, e))

\* the scan of extract_files_batch that stops one entry short
RECURSIVE MatchedUnitsSkipsLast(_, _, _, _)
MatchedUnitsSkipsLast(fmt, arch, wanted, k) ==
    IF k >= Len(arch) THEN <<>>
    ELSE (IF LookupKey(fmt, arch[k]) \in wanted THEN <<k>> ELSE <<>>)
         \o MatchedUnitsSkipsLast(fmt, arch, wanted, k + 1)

\* the sequential scan of extract_files_batch: the positions, from k on, of the
\* entries whose lookup key is wanted, in the archive's order
RECURSIVE MatchedUnits(_, _, _, _)
MatchedUnits(fmt, arch, wanted, k) ==
    IF k > Len(arch) THEN <<>>
    ELSE (IF LookupKey(fmt, arch[k]) \in wanted THEN <<k>> ELSE <<>>)
         \o MatchedUnits(fmt, arch, wanted, k + 1)

\* whether the closure decodes the entry: TES3 entries are stored raw
Decodes(fmt, e) == fmt = "Tes3Bsa" \/ e.decodes

(***************************************************************************)
(* The inputs of the batch model                                            *)
(***************************************************************************)
\* stored entries of TES4 archives: a nested file, a root file as BsaBuilder
\* stores it, upper-case names, an entry whose compressed bytes are corrupt,
\* and a directory name written with a forward slash
BsaEntryPool ==
    << Entry(<<"a">>, <<"b">>, 1, TRUE),
       Entry(<<"a">>, <<"d">>, 4, FALSE),
       Entry(<<".">>, <<"c">>, 2, TRUE),
       Entry(<<"E">>, <<"F">>, 3, TRUE),
       Entry(<<"a", "/", "d">>, <<"e">>, 5, TRUE) >>

Ba2EntryPool ==
    << Entry(<<>>, <<"a", "/", "b">>, 1, TRUE),
       Entry(<<>>, <<"C", "\\", "d">>, 2, TRUE),
       Entry(<<>>, <<"e">>, 3, TRUE),
       Entry(<<>>, <<"f">>, 4, FALSE) >>

Tes3EntryPool ==
    << Entry(<<>>, <<"a", "\\", "b">>, 1, TRUE),
       Entry(<<>>, <<"C">>, 2, TRUE),
       Entry(<<>>, <<"d", "\\", "E">>, 3, TRUE) >>

EntryPool(fmt) ==
    IF fmt = "Bsa" THEN BsaEntryPool
    ELSE IF fmt = "Ba2" THEN Ba2EntryPool
    ELSE Tes3EntryPool

\* the archives of a format: up to MaxEntries entries of its pool
Archives(fmt) ==
    {[k \in 1..Len(ix) |-> EntryPool(fmt)[ix[k]]] :
        ix \in {s \in UNION {[1..n -> 1..Len(EntryPool(fmt))] : n \in 0..MaxEntries} :
                    \A k \in 1..(Len(s) - 1) : s[k] < s[k + 1]}}

\* the wanted lists: the listing itself, the listing as the tree spells it
\* (backslashes), the listing in lower case with forward slashes, and the
\* listing without its first entry
WantedLists(fmt, arch) ==
    LET listing == ListArchiveFiles(fmt, arch)
    IN  {listing,
         [k \in 1..Len(listing) |-> Replace(listing[k], FS, BS)],
         [k \in 1..Len(listing) |-> ToLower(Replace(listing[k], BS, FS))],
         IF Len(listing) = 0 THEN listing ELSE Tail(listing)}

(***************************************************************************)
(* extract_archive_files_batch and the readers' extract_files_batch         *)
(***************************************************************************)
Ok(n) == [ok |-> TRUE, count |-> Some(n), err |-> ""]
Err(e) == [ok |-> FALSE, count |-> None, err |-> e]

\* a caller about to call extract_archive_files_batch
InitBatch ==
    /\ format \in Formats
    /\ archive \in Archives(format)
    /\ wanted_files \in WantedLists(format, archive)
    /\ caller \in {"gui", "cli"}
    /\ bpc = "idle"
    /\ units = <<>>
    /\ ustate = <<>>
    /\ uerr = <<>>
    /\ full = FALSE
    /\ extracted = 0
    /\ sink_calls = [k \in 1..Len(archive) |-> 0]
    /\ cancelled = FALSE
    /\ observed = FALSE
    /\ started_late = FALSE
    /\ caller_count = 0
    /\ written = {}
    /\ result = None
    /\ scan_pos = 0

batchInputs == <<format, archive, wanted_files, caller>>

\* Archive::read and the scan: the matched entries are collected, then the
\* parallel phase begins
BatchScan ==
    /\ bpc = "idle"
    /\ bpc' = "parallel"
    /\ units' = MatchedUnits(format, archive, WantedSet(format, wanted_files), 1)
    /\ ustate' = [u \in 1..Len(units') |-> "pending"]
    /\ uerr' = [u \in 1..Len(units') |-> ""]
    /\ scan_pos' = Len(archive)
    /\ UNCHANGED <<batchInputs, full, extracted, sink_calls, cancelled, observed,
                   started_late, caller_count, written, result, notBatch, detVars>>

\* Archive::read returned and `entries` is the empty Vec: the scan loop begins
ScanBegin ==
    /\ bpc = "idle"
    /\ bpc' = "scanning"
    /\ units' = <<>>
    /\ scan_pos' = 0
    /\ UNCHANGED <<batchInputs, ustate, uerr, full, extracted, sink_calls, cancelled,
                   observed, started_late, caller_count, written, result, notBatch,
                   detVars>>

\* one turn of the scan loop: the next entry of the archive is pushed when
\* its lookup key is wanted
ScanStep ==
    /\ bpc = "scanning"
    /\ scan_pos < Len(archive)
    /\ scan_pos' = scan_pos + 1
    /\ units' = IF LookupKey(format, archive[scan_pos + 1])
                      \in WantedSet(format, wanted_files)
                THEN Append(units, scan_pos + 1)
                ELSE units
    /\ UNCHANGED <<batchInputs, bpc, ustate, uerr, full, extracted, sink_calls,
                   cancelled, observed, started_late, caller_count, written, result,
                   notBatch, detVars>>

\* a fan-out that does not wait for the scan loop
ParallelMayBeginAnyTime(pos, n) == TRUE

\* entries.par_iter() stands behind the scan loop: it is reached when the
\* loop has examined every entry
ParallelMayBegin(pos, n) == pos = n

\* entries.par_iter().try_for_each(..) is entered
ScanEnd ==
    /\ bpc = "scanning"
    /\ ParallelMayBegin(scan_pos, Len(archive))
    /\ bpc' = "parallel"
    /\ ustate' = [u \in 1..Len(units) |-> "pending"]
    /\ uerr' = [u \in 1..Len(units) |-> ""]
    /\ UNCHANGED <<batchInputs, units, scan_pos, full, extracted, sink_calls, cancelled,
                   observed, started_late, caller_count, written, result, notBatch,
                   detVars>>

\* a parallel phase that keeps handing out units after an Err was recorded
MayStartAlways(stop) == TRUE

\* try_for_each asks its stop flag before it hands the next unit to the closure
MayStart(stop) == ~stop

\* a worker takes a unit that try_for_each has not yet started and decodes it
UnitStart ==
    \E u \in 1..Len(units) :
        /\ bpc = "parallel"
        /\ ustate[u] = "pending"
        /\ MayStart(full)
        /\ IF Decodes(format, archive[units[u]])
           THEN /\ ustate' = [ustate EXCEPT ![u] = "decoded"]
                /\ UNCHANGED uerr
           ELSE /\ ustate' = [ustate EXCEPT ![u] = "erred"]
                /\ uerr' = [uerr EXCEPT ![u] = "Decode"]
        /\ started_late' = (started_late \/ observed)
        /\ UNCHANGED <<batchInputs, bpc, units, full, extracted, sink_calls, cancelled,
                       observed, caller_count, written, result, notBatch, detVars,
                       scan_pos>>

\* the callback is entered; the GUI's closure first loads the cancellation flag
UnitSinkEnter ==
    \E u \in 1..Len(units) :
        /\ bpc = "parallel"
        /\ ustate[u] = "decoded"
        /\ sink_calls' = [sink_calls EXCEPT ![units[u]] = @ + 1]
        /\ IF caller = "gui" /\ cancelled
           THEN /\ ustate' = [ustate EXCEPT ![u] = "erred"]
                /\ uerr' = [uerr EXCEPT ![u] = "Cancelled"]
                /\ observed' = TRUE
           ELSE /\ ustate' = [ustate EXCEPT ![u] = "checked"]
                /\ UNCHANGED <<uerr, observed>>
        /\ UNCHANGED <<batchInputs, bpc, units, full, extracted, cancelled,
                       started_late, caller_count, written, result, notBatch, detVars,
                       scan_pos>>

\* the callback writes the file: the GUI's closure ignores a failed write, the
\* CLI's returns it; on Ok the reader counts the unit
UnitSinkWrite ==
    \E u \in 1..Len(units), write_ok \in BOOLEAN :
        /\ bpc = "parallel"
        /\ ustate[u] = "checked"
        /\ IF write_ok
           THEN /\ written' = written \cup {EntryPath(format, archive[units[u]])}
                /\ caller_count' = caller_count + 1
           ELSE UNCHANGED <<written, caller_count>>
        /\ IF write_ok \/ caller = "gui"
           THEN /\ ustate' = [ustate EXCEPT ![u] = "ok"]
                /\ extracted' = extracted + 1
                /\ UNCHANGED uerr
           ELSE /\ ustate' = [ustate EXCEPT ![u] = "erred"]
                /\ uerr' = [uerr EXCEPT ![u] = "Io"]
                /\ UNCHANGED extracted
        /\ UNCHANGED <<batchInputs, bpc, units, full, sink_calls, cancelled, observed,
                       started_late, result, notBatch, detVars,
                       scan_pos>>

\* try_for_each takes note of a closure's Err: no further unit is started
UnitRegister ==
    \E u \in 1..Len(units) :
        /\ bpc = "parallel"
        /\ ustate[u] = "erred"
        /\ ustate' = [ustate EXCEPT ![u] = "failed"]
        /\ full' = TRUE
        /\ UNCHANGED <<batchInputs, bpc, units, uerr, extracted, sink_calls, cancelled,
                       observed, started_late, caller_count, written, result, notBatch, detVars,
                       scan_pos>>

FailedUnits == {u \in 1..Len(units) : ustate[u] = "failed"}

\* try_for_each(..)? and Ok(count): the call returns once no unit is running
\* and none can be started
BatchReturn ==
    /\ bpc = "parallel"
    /\ \A u \in 1..Len(units) :
          \/ ustate[u] \in {"ok", "failed"}
          \/ ustate[u] = "pending" /\ full
    /\ bpc' = "returned"
    /\ IF FailedUnits = {}
       THEN result' = Some(Ok(extracted))
       ELSE \E u \in FailedUnits : result' = Some(Err(uerr[u]))
    /\ UNCHANGED <<batchInputs, units, ustate, uerr, full, extracted, sink_calls,
                   cancelled, observed, started_late, caller_count, written, notBatch, detVars,
                   scan_pos>>

NextBatch ==
    \/ BatchScan
    \/ UnitStart
    \/ UnitSinkEnter
    \/ UnitSinkWrite
    \/ UnitRegister
    \/ BatchReturn

\* one call of extract_archive_files_batch, on any archive of the model
InitBatchCall == InitTree /\ InitBatch /\ OneIdle /\ BuildIdle /\ RestIdle

SpecBatch == InitBatchCall /\ [][NextBatch]_vars

\* The cancellation flag is stored true while a batch runs, once some unit has
\* completed and some unit has not.  No code of the repository performs this
\* store; it is the premise of the specification's cancellation scenario.
CancelRequest ==
    /\ bpc = "parallel"
    /\ ~cancelled
    /\ \E u \in 1..Len(units) : ustate[u] = "ok"
    /\ \E u \in 1..Len(units) : ustate[u] # "ok"
    /\ cancelled' = TRUE
    /\ UNCHANGED <<batchInputs, bpc, units, ustate, uerr, full, extracted, sink_calls,
                   observed, started_late, caller_count, written, result, notBatch, detVars,
                   scan_pos>>

NextScan ==
    \/ ScanBegin
    \/ ScanStep
    \/ ScanEnd
    \/ UnitStart
    \/ UnitSinkEnter
    \/ UnitSinkWrite
    \/ UnitRegister
    \/ BatchReturn

\* one batch call with the scan loop taken entry by entry
SpecScan == InitBatchCall /\ [][NextScan]_vars

NextCancel ==
    \/ NextBatch
    \/ CancelRequest

\* one extraction started from the window, cancelled while it runs
InitCancel == InitTree /\ InitBatch /\ caller = "gui" /\ OneIdle /\ BuildIdle /\ RestIdle

SpecCancel == InitCancel /\ [][NextCancel]_vars

(***************************************************************************)
(* extract_archive_file and the readers' extract_file                       *)
(***************************************************************************)
Found(data) == [ok |-> TRUE, data |-> data, err |-> ""]
\* contents are numbered from 1; a failed call carries none
Failed(e) == [ok |-> FALSE, data |-> 0, err |-> e]

\* str::eq_ignore_ascii_case
EqIgnoreAsciiCase(a, b) == ToLower(a) = ToLower(b)

\* the first element of a non-empty set of positions: the first match of a loop
FirstOf(hits) == CHOOSE k \in hits : \A j \in hits : k <= j

\* reader.rs extract_file: the request is split at its last backslash and the
\* two halves are compared with the directory name and the file name
BsaExtractFile(arch, path) ==
    LET normalized == Replace(path, FS, BS)
        idx == RFind(normalized, BS)
        dir_name == IF idx > 0 THEN SubSeq(normalized, 1, idx - 1) ELSE <<>>
        file_name == IF idx > 0 THEN SubSeq(normalized, idx + 1, Len(normalized))
                     ELSE normalized
        hits == {k \in 1..Len(arch) :
                    /\ EqIgnoreAsciiCase(arch[k].dir, dir_name)
                    /\ EqIgnoreAsciiCase(arch[k].name, file_name)}
    IN  IF hits = {} THEN Failed("NotFound")
        ELSE IF arch[FirstOf(hits)].decodes THEN Found(arch[FirstOf(hits)].data)
        ELSE Failed("Decode")

\* ba2_reader.rs extract_file: both slash conventions are tried
Ba2ExtractFile(arch, path) ==
    LET normalized == ToLower(Replace(path, BS, FS))
        normalized_backslash == ToLower(Replace(path, FS, BS))
        hits == {k \in 1..Len(arch) :
                    LET current_path == ToLower(arch[k].name)
                    IN  \/ current_path = normalized
                        \/ current_path = normalized_backslash
                        \/ Replace(current_path, BS, FS) = normalized
                        \/ Replace(current_path, FS, BS) = normalized_backslash}
    IN  IF hits = {} THEN Failed("NotFound")
        ELSE IF arch[FirstOf(hits)].decodes THEN Found(arch[FirstOf(hits)].data)
        ELSE Failed("Decode")

\* tes3_reader.rs extract_file: the raw bytes of the first matching entry
Tes3ExtractFile(arch, path) ==
    LET normalized == Replace(path, FS, BS)
        hits == {k \in 1..Len(arch) : EqIgnoreAsciiCase(arch[k].name, normalized)}
    IN  IF hits = {} THEN Failed("NotFound")
        ELSE Found(arch[FirstOf(hits)].data)

\* extract_archive_file
ExtractArchiveFile(fmt, arch, path) ==
    IF fmt = "Tes3Bsa" THEN Tes3ExtractFile(arch, path)
    ELSE IF fmt = "Bsa" THEN BsaExtractFile(arch, path)
    ELSE Ba2ExtractFile(arch, path)

\* the requests: every listed path as listed, with forward slashes, and in
\* lower case; and a path no archive of the model holds
RequestPool(fmt, arch) ==
    LET listing == ListArchiveFiles(fmt, arch)
    IN  {listing[k] : k \in 1..Len(listing)}
        \cup {Replace(listing[k], BS, FS) : k \in 1..Len(listing)}
        \cup {ToLower(listing[k]) : k \in 1..Len(listing)}
        \cup {<<"g">>}

\* a caller about to call extract_archive_file on an archive it has listed
InitExtractOne ==
    /\ InitTree
    /\ InitBatch
    /\ caller = "cli"
    /\ wanted_files = ListArchiveFiles(format, archive)
    /\ file_path \in RequestPool(format, archive)
    /\ found = None
    /\ BuildIdle
    /\ RestIdle

ExtractOne ==
    /\ bpc = "idle"
    /\ found = None
    /\ found' = Some(ExtractArchiveFile(format, archive, file_path))
    /\ UNCHANGED <<file_path, batchVars, detVars, notOne>>

\* one call of extract_archive_file, on any archive of the model
SpecExtractOne == InitExtractOne /\ [][ExtractOne]_vars

(***************************************************************************)
(* BsaBuilder (writer.rs) and Ba2Builder (ba2_writer.rs)                    *)
(***************************************************************************)
\* str::trim_start_matches(c)
RECURSIVE TrimStart(_, _)
TrimStart(s, c) ==
    IF Len(s) > 0 /\ s[1] = c THEN TrimStart(Tail(s), c) ELSE s

\* the key add_file stores the data under, as <<directory, file name>>:
\* BsaBuilder splits the normalized path at its last slash and keeps root files
\* under "."; Ba2Builder keeps the whole normalized path (no directory part)
AddFileKey(b, path) ==
    LET normalized == TrimStart(Replace(path, BS, FS), FS)
        idx == RFind(normalized, FS)
    IN  IF b = "ba2" THEN <<<<>>, normalized>>
        ELSE IF idx > 0
             THEN <<SubSeq(normalized, 1, idx - 1),
                    SubSeq(normalized, idx + 1, Len(normalized))>>
             ELSE <<<<".">>, normalized>>

\* HashMap::new()
EmptyMap == [k \in {} |-> 0]

\* HashMap::insert: the value of an existing key is replaced
MapInsert(f, key, data) ==
    [k \in (DOMAIN f) \cup {key} |-> IF k = key THEN data ELSE f[k]]

\* file_count
FileCount(f) == Cardinality(DOMAIN f)

\* the paths handed to add_file: both separators, a leading slash, a root
\* file, and two paths that differ in letter case only
AddPool ==
    << <<"a", "/", "b">>,
       <<"a", "\\", "b">>,
       <<"/", "c">>,
       <<"A", "/", "b">>,
       <<"c">> >>

\* the orders in which self.files.into_iter() can yield the keys: any order
\* for Ba2Builder's flat map; for BsaBuilder's nested map the files of one
\* directory come together
IterOrders(b, f) ==
    {o \in Orders(DOMAIN f) :
        b = "bsa" =>
            \A i, j, k \in 1..Len(o) :
                (i < j /\ j < k /\ o[i][1] = o[k][1]) => o[j][1] = o[i][1]}

\* the vector `processed` / `archive_entries`: par_iter().map().collect()
\* keeps the order of `entries`, whatever the order in which workers finish
Processed(f, o) ==
    [k \in 1..Len(o) |-> [dir |-> o[k][1], name |-> o[k][2], data |-> f[o[k]]]]

\* the name an ArchiveKey / DirectoryKey keeps: the key is built from a name
\* by hashing it in place, which lower-cases it and turns '/' into '\'
CrateName(s) == ToLower(Replace(s, FS, BS))

\* the order of the archive container: by directory key, then by file key
KeyLess(e1, e2) ==
    \/ StrLess(e1.dir, e2.dir)
    \/ e1.dir = e2.dir /\ StrLess(e1.name, e2.name)

\* archive / directory insert: the file of an equal key is replaced, a new key
\* takes its place in the container's order
ArchiveInsert(arch, e) ==
    LET same == {k \in 1..Len(arch) : arch[k].dir = e.dir /\ arch[k].name = e.name}
        before == {k \in 1..Len(arch) : KeyLess(arch[k], e)}
    IN  IF same # {}
        THEN [k \in 1..Len(arch) |-> IF k \in same THEN e ELSE arch[k]]
        ELSE SubSeq(arch, 1, Cardinality(before)) \o <<e>>
             \o SubSeq(arch, Cardinality(before) + 1, Len(arch))

\* the loop over `processed` that fills the Archive (Ba2Builder: collect())
RECURSIVE ArchiveFromEntries(_, _, _)
ArchiveFromEntries(processed, k, arch) ==
    IF k > Len(processed) THEN arch
    ELSE ArchiveFromEntries(processed, k + 1,
            ArchiveInsert(arch, Entry(CrateName(processed[k].dir),
                                      CrateName(processed[k].name),
                                      processed[k].data, TRUE)))

\* the reader format of the archives a builder writes
BuiltFormat(b) == IF b = "bsa" THEN "Bsa" ELSE "Ba2"

\* BsaBuilder::new() / Ba2Builder::new()
InitBuild ==
    /\ InitTree
    /\ BatchIdle
    /\ OneIdle
    /\ builder \in {"bsa", "ba2"}
    /\ files = EmptyMap
    /\ adds = <<>>
    /\ builds = <<>>
    /\ roundtrip = None
    /\ build_result = None
    /\ progress_calls = 0
    /\ out_file = None
    /\ out_dirs = FALSE
    /\ RestIdle

\* add_file(path, data); the data of the n-th call is n
AddFile ==
    \E i \in 1..Len(AddPool) :
        /\ build_result = None
        /\ Len(adds) < MaxAdds
        /\ files' = MapInsert(files, AddFileKey(builder, AddPool[i]), Len(adds) + 1)
        /\ adds' = Append(adds, [path |-> AddPool[i], data |-> Len(adds) + 1])
        /\ UNCHANGED <<builder, builds, roundtrip, buildOut, packVars, notBuild>>

\* a build that creates the parent directories before it looks at the builder
BuildOutcomeDirsFirst(f, o) ==
    IF FileCount(f) = 0
    THEN [result |-> "EmptyArchive", progress |-> 0, dirs |-> TRUE, file |-> None]
    ELSE [result |-> "Ok", progress |-> Len(o), dirs |-> TRUE,
          file |-> Some(ArchiveFromEntries(Processed(f, o), 1, <<>>))]

\* what build_with_progress does with the builder's map f iterated in order o:
\* its result, the number of progress callbacks, whether create_dir_all ran,
\* and the archive written to output_path (None when no file is created)
BuildOutcome(f, o) ==
    IF FileCount(f) = 0
    THEN [result |-> "EmptyArchive", progress |-> 0, dirs |-> FALSE, file |-> None]
    ELSE [result |-> "Ok", progress |-> Len(o), dirs |-> TRUE,
          file |-> Some(ArchiveFromEntries(Processed(f, o), 1, <<>>))]

\* build_with_progress on a builder holding `files`; the file set is built
\* twice, each build iterating its map in an order of its own
Build ==
    \E o \in IterOrders(builder, files) :
        LET out == BuildOutcome(files, o)
        IN  /\ Len(builds) < 2
            /\ build_result' = Some(out.result)
            /\ progress_calls' = progress_calls + out.progress
            /\ out_dirs' = (out_dirs \/ out.dirs)
            /\ IF out.file = None
               THEN UNCHANGED <<builds, out_file>>
               ELSE /\ out_file' = out.file
                    /\ builds' = Append(builds,
                          [processed |-> Processed(files, o), archive |-> out.file[1]])
            /\ UNCHANGED <<builder, files, adds, roundtrip, packVars, notBuild>>

\* list_archive_files on the archive first built, then extract_archive_file
\* for every listed path
RoundTrip ==
    /\ builds # <<>>
    /\ roundtrip = None
    /\ LET fmt == BuiltFormat(builder)
           arch == builds[1].archive
           listing == ListArchiveFiles(fmt, arch)
       IN  roundtrip' = Some([k \in 1..Len(listing) |->
                                [path |-> listing[k],
                                 res |-> ExtractArchiveFile(fmt, arch, listing[k])]])
    /\ UNCHANGED <<builder, files, adds, builds, buildOut, packVars, notBuild>>

NextBuild ==
    \/ AddFile
    \/ Build
    \/ RoundTrip

\* a builder filled, built twice, and its archive read back
SpecBuild == InitBuild /\ [][NextBuild]_vars

(***************************************************************************)
(* Search: matches_search (state.rs)                                        *)
(***************************************************************************)
\* text[from..].find(part): the offset of the first occurrence of part in the
\* text behind position `from` (0-based), -1 for None
FindSub(text, from, part) ==
    LET offs == {f \in 0..(Len(text) - from - Len(part)) :
                    SubSeq(text, from + f + 1, from + f + Len(part)) = part}
    IN  IF offs = {} THEN -1 ELSE CHOOSE f \in offs : \A g \in offs : f <= g

\* the loop over the parts of a wildcard filter, from part i (0-based) with
\* the text consumed up to pos: the final pos, or -1 for `return false`
RECURSIVE WildLoop(_, _, _, _)
WildLoop(parts, i, pos, text) ==
    IF i >= Len(parts) THEN pos
    ELSE IF parts[i + 1] = <<>> THEN WildLoop(parts, i + 1, pos, text)
    ELSE LET hit == FindSub(text, pos, parts[i + 1])
         IN  IF hit = -1 THEN -1
             ELSE IF i = 0 /\ hit # 0 THEN -1
             ELSE WildLoop(parts, i + 1, pos + hit + Len(parts[i + 1]), text)

\* matches_search for a node with the given path under the given filter
MatchesSearch(filter, path) ==
    IF filter = <<>> THEN TRUE
    ELSE LET search == ToLower(filter)
             text == ToLower(path)
         IN  IF "*" \in Range(search)
             THEN LET pos == WildLoop(Split(search, "*"), 0, 0, text)
                  IN  /\ pos # -1
                      /\ ~(search[Len(search)] # "*" /\ pos # Len(text))
             ELSE FindSub(text, 0, search) # -1

\* a match test that looks at the node alone, not at what is below it
NodeMatchesOnly(t, filter, index) == MatchesSearch(filter, t[index + 1].path)

\* node_or_descendants_match: the node, then each child in order
RECURSIVE NodeOrDescendantsMatch(_, _, _)
NodeOrDescendantsMatch(t, filter, index) ==
    IF MatchesSearch(filter, t[index + 1].path) THEN TRUE
    ELSE \E k \in 1..Len(t[index + 1].children) :
             NodeOrDescendantsMatch(t, filter, t[index + 1].children[k])

\* a visibility test that looks at the parent only, not at every ancestor
IsVisibleParentOnly(t, filter, index) ==
    IF filter # <<>> /\ ~NodeOrDescendantsMatch(t, filter, index) THEN FALSE
    ELSE IF t[index + 1].parent # None
    THEN t[t[index + 1].parent[1] + 1].expanded
    ELSE TRUE

\* is_visible: the search filter first, then the expansion of every ancestor
RECURSIVE IsVisible(_, _, _)
IsVisible(t, filter, index) ==
    IF filter # <<>> /\ ~NodeOrDescendantsMatch(t, filter, index) THEN FALSE
    ELSE IF t[index + 1].parent # None
    THEN IF ~t[t[index + 1].parent[1] + 1].expanded THEN FALSE
         ELSE IsVisible(t, filter, t[index + 1].parent[1])
    ELSE TRUE

\* all strings of at most n characters of an alphabet
Strings(alphabet, n) == UNION {[1..k -> alphabet] : k \in 0..n}

\* the filters and paths matches_search is applied to
FilterPool ==
    Strings({"a", "B", "*"}, MaxFilter) \cup {<<"*", ".", "t", "x", "t">>}

TextPool ==
    Strings({"a", "b"}, MaxText)
    \cup {<<"a", ".", "t", "x", "t", ".", "t", "x", "t">>}

InitMatch ==
    /\ InitTree
    /\ BatchIdle
    /\ OneIdle
    /\ BuildIdle
    /\ DetIdle
    /\ PackIdle
    /\ TableIdle
    /\ MoreIdle
    /\ ms_filter \in FilterPool
    /\ ms_path \in TextPool
    /\ ms_result = None

\* matches_search(node) with search_filter = ms_filter and node.path = ms_path
MatchCall ==
    /\ ms_result = None
    /\ ms_result' = Some(MatchesSearch(ms_filter, ms_path))
    /\ UNCHANGED <<ms_filter, ms_path, treeVars, loadVars, batchVars, oneVars, buildVars,
                   detVars, packVars, tableVars, moreVars>>

\* matches_search on every filter and path of the model
SpecMatch == InitMatch /\ [][MatchCall]_vars

(***************************************************************************)
(* Packing: cli_pack (main.rs) and pack_files (state.rs)                    *)
(***************************************************************************)
GameVersions ==
    {"Morrowind", "Oblivion", "Fallout3", "FalloutNewVegas", "SkyrimLE", "SkyrimSE",
     "Fallout4Fo76", "Fallout4NGv7", "Fallout4NGv8", "StarfieldV2", "StarfieldV3"}

\* GameVersion::is_ba2
IsBa2(v) ==
    v \in {"Fallout4Fo76", "Fallout4NGv7", "Fallout4NGv8", "StarfieldV2", "StarfieldV3"}

\* GameVersion::is_tes3
IsTes3(v) == v = "Morrowind"

\* a version table that has no entry for Oblivion
BsaVersionFromFallout3(v) ==
    IF v \in {"Fallout3", "FalloutNewVegas", "SkyrimLE"} THEN Some("v104")
    ELSE IF v = "SkyrimSE" THEN Some("v105")
    ELSE None

\* GameVersion::bsa_version
BsaVersion(v) ==
    IF v = "Oblivion" THEN Some("v103")
    ELSE IF v \in {"Fallout3", "FalloutNewVegas", "SkyrimLE"} THEN Some("v104")
    ELSE IF v = "SkyrimSE" THEN Some("v105")
    ELSE None

\* GameVersion::ba2_version
Ba2VersionOf(v) ==
    IF v = "Fallout4Fo76" THEN Some("V1")
    ELSE IF v = "Fallout4NGv7" THEN Some("V7")
    ELSE IF v = "Fallout4NGv8" THEN Some("V8")
    ELSE IF v = "StarfieldV2" THEN Some("V2")
    ELSE IF v = "StarfieldV3" THEN Some("V3")
    ELSE None

\* a pack that sends every version that is not BA2 to the BSA builder
PackBranchNoTes3(mode, v, list) ==
    IF mode = "cli" /\ list = <<>> THEN "NoFiles"
    ELSE IF IsBa2(v) THEN "ba2"
    ELSE "bsa"

\* the branch a pack takes before it reads any file: the builder it creates,
\* or the error it fails with.  cli_pack rejects TES3 first, then an empty
\* folder; pack_files tests is_ba2 first, then is_tes3
PackBranch(mode, v, list) ==
    IF mode = "cli"
    THEN IF IsTes3(v) THEN "UnsupportedOperation"
         ELSE IF list = <<>> THEN "NoFiles"
         ELSE IF IsBa2(v) THEN "ba2" ELSE "bsa"
    ELSE IF IsBa2(v) THEN "ba2"
         ELSE IF IsTes3(v) THEN "UnsupportedOperation"
         ELSE "bsa"

\* Path::file_name: the last component, None for a path that ends in ".."
FileName(path) ==
    IF path = <<>> \/ path[Len(path)] = <<".", ".">> THEN None
    ELSE Some(path[Len(path)])

\* a choice of format that looks for "textures" in the name as it is spelled
Ba2FormatOfAsSpelled(path) ==
    LET name == IF FileName(path) = None THEN <<>> ELSE FileName(path)[1]
    IN  IF FindSub(name, 0, <<"t", "e", "x", "t", "u", "r", "e", "s">>) # -1
        THEN "DX10" ELSE "General"

\* the Ba2Format of a BA2 pack: DX10 when the lower-cased file name of the
\* output path contains "textures"
Ba2FormatOf(path) ==
    LET name_lower == IF FileName(path) = None THEN <<>> ELSE ToLower(FileName(path)[1])
    IN  IF FindSub(name_lower, 0, <<"t", "e", "x", "t", "u", "r", "e", "s">>) # -1
        THEN "DX10" ELSE "General"

\* the output paths of the packs: a texture archive in two spellings, a name
\* one letter short of "textures", a main archive inside a folder named
\* textures, a TES4 name, and a path without a file name
OutputPaths ==
    { << <<"o">>, <<"M", "T", "e", "x", "t", "u", "r", "e", "s", ".", "b", "a", "2">> >>,
      << <<"t", "e", "x", "t", "u", "r", "e", "s">> >>,
      << <<"t", "e", "x", "t", "u", "r", "e", ".", "b", "a", "2">> >>,
      << <<"t", "e", "x", "t", "u", "r", "e", "s">>, <<"m", ".", "b", "a", "2">> >>,
      << <<"T", "E", "X", "T", "U", "R", "E", "S", ".", "b", "s", "a">> >>,
      << <<"o">>, <<".", ".">> >> }

\* the lists of files to pack: up to MaxPack paths
PackLists == UNION {[1..n -> Range(AddPool)] : n \in 0..MaxPack}

\* a pack about to start: cli_pack with a parsed game version, or pack_files,
\* which on_pack calls with a non-empty selection only
InitPack ==
    /\ InitTree
    /\ BatchIdle
    /\ OneIdle
    /\ DetIdle
    /\ MatchIdle
    /\ TableIdle
    /\ MoreIdle
    /\ game_version \in GameVersions
    /\ pack_mode \in {"cli", "gui"}
    /\ pack_list \in PackLists
    /\ pack_mode = "gui" => pack_list # <<>>
    /\ pack_result = None
    /\ output_path \in OutputPaths
    /\ ba2_format = ""
    /\ build_path = ""
    /\ builder = "none"
    /\ files = EmptyMap
    /\ adds = <<>>
    /\ builds = <<>>
    /\ roundtrip = None
    /\ build_result = None
    /\ progress_calls = 0
    /\ out_file = None
    /\ out_dirs = FALSE

\* the start of cli_pack / pack_files: a builder is created or the pack fails
PackBegin ==
    /\ pack_result = None
    /\ builder = "none"
    /\ LET branch == PackBranch(pack_mode, game_version, pack_list)
       IN  IF branch \in {"bsa", "ba2"}
           THEN /\ builder' = branch
                /\ ba2_format' = IF branch = "ba2" THEN Ba2FormatOf(output_path) ELSE ""
                /\ UNCHANGED pack_result
           ELSE pack_result' = Some(Err(branch)) /\ UNCHANGED <<builder, ba2_format>>
    /\ UNCHANGED <<files, adds, builds, roundtrip, buildOut, game_version, pack_mode,
                   pack_list, output_path, build_path, notBuild>>

\* one round of the reading loop: pack_files checks the cancellation flag,
\* the file is read from disk (which may fail) and added to the builder
PackRead ==
    \E read_ok \in BOOLEAN :
        /\ pack_result = None
        /\ builder \in {"bsa", "ba2"}
        /\ pack_list # <<>>
        /\ IF pack_mode = "gui" /\ cancelled
           THEN /\ pack_result' = Some(Err("Cancelled"))
                /\ UNCHANGED <<files, adds, pack_list>>
           ELSE IF ~read_ok
           THEN /\ pack_result' = Some(Err("Io"))
                /\ UNCHANGED <<files, adds, pack_list>>
           ELSE /\ files' = MapInsert(files, AddFileKey(builder, Head(pack_list)),
                                      Len(adds) + 1)
                /\ adds' = Append(adds, [path |-> Head(pack_list), data |-> Len(adds) + 1])
                /\ pack_list' = Tail(pack_list)
                /\ UNCHANGED pack_result
        /\ UNCHANGED <<builder, builds, roundtrip, buildOut, game_version, pack_mode,
                       output_path, ba2_format, build_path, notBuild>>

\* builder.build_with_progress(output_path, ..)? and the Ok of the pack
PackBuild ==
    \E o \in IterOrders(builder, files) :
        LET out == BuildOutcome(files, o)
        IN  /\ pack_result = None
            /\ builder \in {"bsa", "ba2"}
            /\ pack_list = <<>>
            /\ build_result' = Some(out.result)
            /\ progress_calls' = progress_calls + out.progress
            /\ out_dirs' = (out_dirs \/ out.dirs)
            /\ IF out.file = None
               THEN UNCHANGED <<builds, out_file>>
               ELSE /\ out_file' = out.file
                    /\ builds' = Append(builds,
                          [processed |-> Processed(files, o), archive |-> out.file[1]])
            /\ pack_result' = Some(IF out.result = "Ok" THEN Ok(Len(adds))
                                   ELSE Err(out.result))
            /\ build_path' = IF builder = "bsa" THEN "build_with_progress (BSA)"
                             ELSE IF ba2_format = "DX10" THEN "build_dx10_with_progress"
                             ELSE "build_with_progress (BA2)"
            /\ UNCHANGED <<builder, files, adds, roundtrip, game_version, pack_mode,
                           pack_list, output_path, ba2_format, notBuild>>

NextPack ==
    \/ PackBegin
    \/ PackRead
    \/ PackBuild

\* one pack, from the command line or from the window
SpecPack == InitPack /\ [][NextPack]_vars

(***************************************************************************)
(* The game profile table: GameVersion (mod.rs)                             *)
(***************************************************************************)
\* GameVersion::all
All ==
    << "Morrowind",
       "Oblivion",
       "Fallout3",
       "FalloutNewVegas",
       "SkyrimLE",
       "SkyrimSE",
       "Fallout4Fo76",
       "Fallout4NGv7",
       "Fallout4NGv8",
       "StarfieldV2",
       "StarfieldV3" >>

\* GameVersion::from_index
FromIndex(index) ==
    CASE index = 0 -> "Morrowind"
      [] index = 1 -> "Oblivion"
      [] index = 2 -> "Fallout3"
      [] index = 3 -> "FalloutNewVegas"
      [] index = 4 -> "SkyrimLE"
      [] index = 5 -> "SkyrimSE"
      [] index = 6 -> "Fallout4Fo76"
      [] index = 7 -> "Fallout4NGv7"
      [] index = 8 -> "Fallout4NGv8"
      [] index = 9 -> "StarfieldV2"
      [] index = 10 -> "StarfieldV3"
      [] OTHER -> "Fallout4Fo76"

\* GameVersion::index
Index(v) ==
    CASE v = "Morrowind" -> 0
      [] v = "Oblivion" -> 1
      [] v = "Fallout3" -> 2
      [] v = "FalloutNewVegas" -> 3
      [] v = "SkyrimLE" -> 4
      [] v = "SkyrimSE" -> 5
      [] v = "Fallout4Fo76" -> 6
      [] v = "Fallout4NGv7" -> 7
      [] v = "Fallout4NGv8" -> 8
      [] v = "StarfieldV2" -> 9
      [] v = "StarfieldV3" -> 10

\* GameVersion::cli_name
CliName(v) ==
    CASE v = "Morrowind" -> <<"m", "o", "r", "r", "o", "w", "i", "n", "d">>
      [] v = "Oblivion" -> <<"o", "b", "l", "i", "v", "i", "o", "n">>
      [] v = "Fallout3" -> <<"f", "o", "3">>
      [] v = "FalloutNewVegas" -> <<"f", "o", "n", "v">>
      [] v = "SkyrimLE" -> <<"s", "k", "y", "r", "i", "m", "l", "e">>
      [] v = "SkyrimSE" -> <<"s", "k", "y", "r", "i", "m", "s", "e">>
      [] v = "Fallout4Fo76" -> <<"f", "o", "4", "-", "f", "o", "7", "6">>
      [] v = "Fallout4NGv7" -> <<"f", "o", "4", "n", "g", "-", "v", "7">>
      [] v = "Fallout4NGv8" -> <<"f", "o", "4", "n", "g", "-", "v", "8">>
      [] v = "StarfieldV2" -> <<"s", "t", "a", "r", "f", "i", "e", "l", "d", "-", "v", "2">>
      [] v = "StarfieldV3" -> <<"s", "t", "a", "r", "f", "i", "e", "l", "d", "-", "v", "3">>

\* a lookup by name that compares the name as it was typed
FromCliNameAsTyped(name) ==
    LET hits == {i \in 1..Len(All) : CliName(All[i]) = name}
    IN  IF hits = {} THEN None
        ELSE Some(All[CHOOSE i \in hits : \A j \in hits : i <= j])

\* GameVersion::from_cli_name: the first profile of all() whose cli_name is
\* the lower-cased name
FromCliName(name) ==
    LET lower == ToLower(name)
        hits == {i \in 1..Len(All) : CliName(All[i]) = lower}
    IN  IF hits = {} THEN None
        ELSE Some(All[CHOOSE i \in hits : \A j \in hits : i <= j])

UpperChar(c) ==
    LET ups == {u \in {"A", "B", "C", "D", "E", "F", "G", "I", "K", "L", "M", "N",
                       "O", "R", "S", "T", "V", "W", "X", "Y"} :
                    LowerChar(u) = c}
    IN  IF ups = {} THEN c ELSE CHOOSE u \in ups : TRUE

\* a name in lower case, in upper case, and in two mixed cases
Casings(name) ==
    {name,
     [i \in 1..Len(name) |-> UpperChar(name[i])],
     [i \in 1..Len(name) |-> IF i = 1 THEN UpperChar(name[i]) ELSE name[i]],
     [i \in 1..Len(name) |-> IF i % 2 = 0 THEN UpperChar(name[i]) ELSE name[i]]}

\* the names typed after --game: every CLI name in four casings, and names
\* that belong to no profile
CliNamePool ==
    UNION {Casings(CliName(v)) : v \in GameVersions}
    \cup {<<>>,
     <<"f", "o", "4">>,
     <<"s", "k", "y", "r", "i", "m">>,
     <<"f", "o", "3", " ">>,
     <<"t", "e", "s", "3">>,
     <<"f", "o", "4", "_", "f", "o", "7", "6">>}

\* the indices the ComboBox or a caller may hand over: those of the table
\* and MaxBeyond more on either side
IndexPool == (0 - MaxBeyond)..(Len(All) - 1 + MaxBeyond)

InitTable ==
    /\ InitTree
    /\ BatchIdle
    /\ OneIdle
    /\ BuildIdle
    /\ DetIdle
    /\ PackIdle
    /\ MatchIdle
    /\ MoreIdle
    /\ gv_index \in IndexPool
    /\ gv_name \in CliNamePool
    /\ gv_by_index = None
    /\ gv_by_name = None

\* GameVersion::from_index(gv_index)
FromIndexCall ==
    /\ gv_by_index = None
    /\ gv_by_index' = Some(FromIndex(gv_index))
    /\ UNCHANGED <<gv_index, gv_name, gv_by_name, treeVars, loadVars, batchVars, oneVars,
                   buildVars, detVars, packVars, matchVars, moreVars>>

\* GameVersion::from_cli_name(gv_name)
FromCliNameCall ==
    /\ gv_by_name = None
    /\ gv_by_name' = Some(FromCliName(gv_name))
    /\ UNCHANGED <<gv_index, gv_name, gv_by_index, treeVars, loadVars, batchVars, oneVars,
                   buildVars, detVars, packVars, matchVars, moreVars>>

NextTable ==
    \/ FromIndexCall
    \/ FromCliNameCall

\* the two lookups on every index and name of the model
SpecTable == InitTable /\ [][NextTable]_vars

(***************************************************************************)
(* detect_format and the dispatch of the three operations (mod.rs)          *)
(***************************************************************************)
\* Path::extension of a file name: the text after the last dot, None when the
\* name has no dot, or only a leading one, or is ".."
Extension(name) ==
    LET idx == RFind(name, ".")
    IN  IF idx <= 1 \/ name = <<".", ".">> THEN None
        ELSE Some(SubSeq(name, idx + 1, Len(name)))

\* the ArchiveFormat of a FileFormat guess_format returns
SigFormat(sig) ==
    CASE sig = "TES3" -> "Tes3Bsa"
      [] sig = "TES4" -> "Bsa"
      [] sig = "FO4" -> "Ba2"
      [] OTHER -> "None"

\* the fallback of detect_format: the lower-cased extension
ExtensionFormat(name) ==
    IF Extension(name) = None THEN "None"
    ELSE LET ext == ToLower(Extension(name)[1])
         IN  IF ext = <<"b", "s", "a">> THEN "Bsa"
             ELSE IF ext = <<"b", "a", "2">> THEN "Ba2"
             ELSE "None"

\* a detection that trusts the extension before the header
DetectFormatExtensionFirst(name, open_ok, sig) ==
    IF ExtensionFormat(name) # "None" THEN ExtensionFormat(name)
    ELSE IF open_ok THEN SigFormat(sig) ELSE "None"

\* detect_format: "None" stands for Option::None
DetectFormat(name, open_ok, sig) ==
    IF open_ok /\ sig # "None" THEN SigFormat(sig)
    ELSE ExtensionFormat(name)

\* Archive::read of the reader chosen for fmt succeeds when the file opens and
\* holds an archive of that format
Readable(fmt, open_ok, sig) == open_ok /\ SigFormat(sig) = fmt

ListOk(paths) == [ok |-> TRUE, paths |-> paths, err |-> ""]
ListErr(e) == [ok |-> FALSE, paths |-> <<>>, err |-> e]

\* a listing that answers an unknown format with an empty list
ListResultEmptyOnUnknown(fmt, can_read, arch) ==
    IF fmt = "None" THEN ListOk(<<>>)
    ELSE IF ~can_read THEN ListErr("Open")
    ELSE ListOk(ListArchiveFiles(fmt, arch))

\* list_archive_files once detect_format has answered fmt
ListResult(fmt, can_read, arch) ==
    IF fmt = "None" THEN ListErr("UnknownFormat")
    ELSE IF ~can_read THEN ListErr("Open")
    ELSE ListOk(ListArchiveFiles(fmt, arch))

\* extract_archive_file once detect_format has answered fmt
ExtractResult(fmt, can_read, arch, path) ==
    IF fmt = "None" THEN Failed("UnknownFormat")
    ELSE IF ~can_read THEN Failed("Open")
    ELSE ExtractArchiveFile(fmt, arch, path)

\* file names: both extensions in several spellings, other extensions, no
\* extension, a leading dot only, a trailing dot
NamePool ==
    { <<"a", ".", "b", "s", "a">>, <<"a", ".", "B", "S", "A">>,
      <<"a", ".", "b", "a", "2">>, <<"a", ".", "B", "a", "2">>,
      <<"a", ".", "b", "s", "a", ".", "d">>, <<"a", ".", "d", ".", "b", "a", "2">>,
      <<".", "b", "s", "a">>, <<"b", "s", "a">>, <<"a", ".">>, <<"a", ".", "b", "s">> }

Signatures == {"TES3", "TES4", "FO4", "None"}

\* the entries of the file at archive_path: those of an archive of the
\* signature's format, none when the file is not an archive
FileEntries(open_ok, sig) ==
    IF open_ok /\ sig # "None" THEN SubSeq(EntryPool(SigFormat(sig)), 1, 2) ELSE <<>>

\* File::open(path) in detect_format: made on every call, before guess_format
DetectOpens(open_ok) == IF open_ok THEN 1 ELSE 0

\* Archive::read(path) in the reader's extract_files_batch: the codec opens
\* the file by its path once the format is known
ReaderOpens(fmt, open_ok) == IF fmt # "None" /\ open_ok THEN 1 ELSE 0

\* a caller holding a path, about to list it, extract from it, or both
InitDetect ==
    /\ InitTree
    /\ archive_path \in NamePool
    /\ openable \in BOOLEAN
    /\ signature \in Signatures
    /\ listed = None
    /\ opens = 0
    /\ format = "None"
    /\ archive = FileEntries(openable, signature)
    /\ wanted_files = ListArchiveFiles(SigFormat(signature), archive)
    /\ caller = "cli"
    /\ bpc = "idle"
    /\ units = <<>>
    /\ ustate = <<>>
    /\ uerr = <<>>
    /\ full = FALSE
    /\ extracted = 0
    /\ sink_calls = [k \in 1..Len(archive) |-> 0]
    /\ cancelled = FALSE
    /\ observed = FALSE
    /\ started_late = FALSE
    /\ caller_count = 0
    /\ written = {}
    /\ result = None
    /\ scan_pos = 0
    /\ file_path \in {<<"a", "\\", "b">>, <<"g">>}
    /\ found = None
    /\ BuildIdle
    /\ PackIdle
    /\ MatchIdle
    /\ TableIdle
    /\ MoreIdle

\* list_archive_files(archive_path)
ListCall ==
    /\ listed = None
    /\ bpc \in {"idle", "returned"}
    /\ format' = DetectFormat(archive_path, openable, signature)
    /\ listed' = Some(ListResult(format', Readable(format', openable, signature), archive))
    /\ UNCHANGED <<archive_path, openable, signature, opens, archive, wanted_files,
                   caller, bpc, units, ustate, uerr, full, extracted, sink_calls, cancelled, observed,
                   started_late, caller_count, written, result, scan_pos, oneVars,
                   notOne>>

\* extract_archive_file(archive_path, file_path)
ExtractCall ==
    /\ found = None
    /\ bpc \in {"idle", "returned"}
    /\ format' = DetectFormat(archive_path, openable, signature)
    /\ found' = Some(ExtractResult(format', Readable(format', openable, signature),
                                   archive, file_path))
    /\ UNCHANGED <<detVars, file_path, archive, wanted_files, caller, bpc,
                   units, ustate, uerr, full, extracted, sink_calls, cancelled, observed,
                   started_late, caller_count, written, result, scan_pos, notOne>>

\* extract_archive_files_batch(archive_path, wanted_files, callback): an
\* unknown format or an unreadable file ends the call at once, otherwise the
\* reader scans the archive and starts its parallel phase
BatchCall ==
    /\ bpc = "idle"
    /\ format' = DetectFormat(archive_path, openable, signature)
    /\ IF format' = "None" \/ ~Readable(format', openable, signature)
       THEN /\ bpc' = "returned"
            /\ result' = Some(Err(IF format' = "None" THEN "UnknownFormat" ELSE "Open"))
            /\ UNCHANGED <<units, ustate, uerr, scan_pos>>
       ELSE /\ bpc' = "parallel"
            /\ scan_pos' = Len(archive)
            /\ units' = MatchedUnits(format', archive, WantedSet(format', wanted_files), 1)
            /\ ustate' = [u \in 1..Len(units') |-> "pending"]
            /\ uerr' = [u \in 1..Len(units') |-> ""]
            /\ UNCHANGED result
    /\ opens' = opens + DetectOpens(openable) + ReaderOpens(format', openable)
    /\ UNCHANGED <<archive_path, openable, signature, listed>>
    /\ UNCHANGED <<archive, wanted_files, caller, full, extracted, sink_calls,
                   cancelled, observed, started_late, caller_count, written, notBatch>>

NextDetect ==
    \/ ListCall
    \/ ExtractCall
    \/ BatchCall
    \/ UnitStart
    \/ UnitSinkEnter
    \/ UnitSinkWrite
    \/ UnitRegister
    \/ BatchReturn

\* the three operations of mod.rs on any file
SpecDetect == InitDetect /\ [][NextDetect]_vars

(***************************************************************************)
(* The parallel phase of build_with_progress (writer.rs, ba2_writer.rs)     *)
(***************************************************************************)
\* largest number of files of one build
MaxFiles == 3

\* the files of a build: whether the codec compresses the bytes and whether
\* they parse as a DDS texture are properties of the data
FilePool ==
    << [path |-> <<"a">>, compresses |-> TRUE, texture |-> TRUE],
       [path |-> <<"b">>, compresses |-> FALSE, texture |-> TRUE],
       [path |-> <<"c">>, compresses |-> TRUE, texture |-> FALSE],
       [path |-> <<"d">>, compresses |-> TRUE, texture |-> TRUE] >>

\* the file sets of the builds: up to MaxFiles files of the pool
FileSets ==
    {[k \in 1..Len(ix) |-> FilePool[ix[k]]] :
        ix \in {q \in UNION {[1..n -> 1..Len(FilePool)] : n \in 0..MaxFiles} :
                    \A k \in 1..(Len(q) - 1) : q[k] < q[k + 1]}}

\* an encoding in which a General BA2 build gives up on a compression error
EncodeStrict(kind, compress, e) ==
    IF kind = "dx10"
    THEN IF e.texture THEN [ok |-> TRUE, stored |-> "texture"]
         ELSE [ok |-> FALSE, stored |-> ""]
    ELSE IF ~compress THEN [ok |-> TRUE, stored |-> "raw"]
    ELSE IF e.compresses THEN [ok |-> TRUE, stored |-> "compressed"]
    ELSE [ok |-> FALSE, stored |-> ""]

\* what the closure makes of one file before it counts it: as_bsa_file(..)?,
\* Ba2File::read(..)?, or the chunk that is kept uncompressed when
\* chunk.compress fails
Encode(kind, compress, e) ==
    IF kind = "dx10"
    THEN IF e.texture THEN [ok |-> TRUE, stored |-> "texture"]
         ELSE [ok |-> FALSE, stored |-> ""]
    ELSE IF ~compress THEN [ok |-> TRUE, stored |-> "raw"]
    ELSE IF e.compresses THEN [ok |-> TRUE, stored |-> "compressed"]
    ELSE IF kind = "bsa" THEN [ok |-> FALSE, stored |-> ""]
    ELSE [ok |-> TRUE, stored |-> "raw"]

\* a counter whose update is lost
FetchAddLost(count) == count

\* the value processed_count holds after fetch_add(1, Relaxed)
FetchAdd(count) == count + 1

\* a builder about to be built, on a destination that exists or not
InitEncode ==
    /\ InitTree
    /\ BatchIdle
    /\ OneIdle
    /\ BuildIdle
    /\ DetIdle
    /\ PackIdle
    /\ MatchIdle
    /\ TableIdle
    /\ JobIdle
    /\ bw_kind \in {"bsa", "general", "dx10"}
    /\ bw_compress \in BOOLEAN
    /\ bw_entries \in FileSets
    /\ bw_pc = "idle"
    /\ bw_state = [u \in 1..Len(bw_entries) |-> "pending"]
    /\ bw_current = [u \in 1..Len(bw_entries) |-> 0]
    /\ processed_count = 0
    /\ bw_calls = <<>>
    /\ bw_saved = None
    /\ bw_full = FALSE
    /\ bw_stored = [u \in 1..Len(bw_entries) |-> ""]
    /\ bw_result = None
    /\ bw_dest \in {[file |-> f, dirs |-> f = "old"] : f \in {"absent", "old"}}

\* build_with_progress up to par_iter(): an empty builder is refused
EncodeBegin ==
    /\ bw_pc = "idle"
    /\ IF Len(bw_entries) = 0
       THEN bw_pc' = "returned" /\ bw_result' = Some("EmptyArchive")
       ELSE bw_pc' = "parallel" /\ UNCHANGED bw_result
    /\ UNCHANGED <<bw_kind, bw_compress, bw_entries, bw_state, bw_current,
                   processed_count, bw_calls, bw_saved, bw_full, bw_stored, bw_dest>>
    /\ UNCHANGED <<treeVars, loadVars, batchVars, oneVars, buildVars, detVars,
                   packVars, matchVars, tableVars, jobVars>>

\* a worker takes a file that has not been started and encodes it; an Err
\* leaves the closure through `?`
EncodeFile ==
    \E u \in 1..Len(bw_entries) :
        LET out == Encode(bw_kind, bw_compress, bw_entries[u])
        IN  /\ bw_pc = "parallel"
            /\ bw_state[u] = "pending"
            /\ MayStart(bw_full)
            /\ bw_state' = [bw_state EXCEPT ![u] = IF out.ok THEN "encoded" ELSE "erred"]
            /\ bw_stored' = [bw_stored EXCEPT ![u] = out.stored]
            /\ UNCHANGED <<bw_kind, bw_compress, bw_entries, bw_pc, bw_current,
                           processed_count, bw_calls, bw_saved, bw_full, bw_result,
                           bw_dest>>
            /\ UNCHANGED <<treeVars, loadVars, batchVars, oneVars, buildVars, detVars,
                           packVars, matchVars, tableVars, jobVars>>

\* let current = processed_count.fetch_add(1, Relaxed) + 1
EncodeCount ==
    \E u \in 1..Len(bw_entries) :
        /\ bw_state[u] = "encoded"
        /\ bw_current' = [bw_current EXCEPT ![u] = processed_count + 1]
        /\ processed_count' = FetchAdd(processed_count)
        /\ bw_state' = [bw_state EXCEPT ![u] = "counted"]
        /\ UNCHANGED <<bw_kind, bw_compress, bw_entries, bw_pc, bw_calls, bw_saved,
                       bw_full, bw_stored, bw_result, bw_dest>>
        /\ UNCHANGED <<treeVars, loadVars, batchVars, oneVars, buildVars, detVars,
                       packVars, matchVars, tableVars, jobVars>>

\* progress(current, total, path), then the closure returns Ok
EncodeProgress ==
    \E u \in 1..Len(bw_entries) :
        /\ bw_state[u] = "counted"
        /\ bw_calls' = Append(bw_calls, [current |-> bw_current[u],
                                         total |-> Len(bw_entries),
                                         path |-> bw_entries[u].path])
        /\ bw_state' = [bw_state EXCEPT ![u] = "done"]
        /\ UNCHANGED <<bw_kind, bw_compress, bw_entries, bw_pc, bw_current,
                       processed_count, bw_saved, bw_full, bw_stored, bw_result, bw_dest>>
        /\ UNCHANGED <<treeVars, loadVars, batchVars, oneVars, buildVars, detVars,
                       packVars, matchVars, tableVars, jobVars>>

\* collect() into a Result takes the Err of a closure: the first one is
\* saved, and no further file is handed out
EncodeSaveError ==
    \E u \in 1..Len(bw_entries) :
        /\ bw_state[u] = "erred"
        /\ bw_state' = [bw_state EXCEPT ![u] = "failed"]
        /\ bw_saved' = IF bw_saved = None THEN Some(bw_entries[u].path) ELSE bw_saved
        /\ bw_full' = TRUE
        /\ UNCHANGED <<bw_kind, bw_compress, bw_entries, bw_pc, bw_current,
                       processed_count, bw_calls, bw_stored, bw_result, bw_dest>>
        /\ UNCHANGED <<treeVars, loadVars, batchVars, oneVars, buildVars, detVars,
                       packVars, matchVars, tableVars, jobVars>>

\* `processed?` / `archive_entries?`: once no closure is running and none can
\* be started, a saved error ends the build, otherwise the archive is filled
EncodeCollect ==
    /\ bw_pc = "parallel"
    /\ \A u \in 1..Len(bw_entries) :
          \/ bw_state[u] \in {"done", "failed"}
          \/ bw_state[u] = "pending" /\ bw_full
    /\ IF bw_saved = None
       THEN bw_pc' = "write" /\ UNCHANGED bw_result
       ELSE bw_pc' = "returned" /\ bw_result' = Some("Encode")
    /\ UNCHANGED <<bw_kind, bw_compress, bw_entries, bw_state, bw_current,
                   processed_count, bw_calls, bw_saved, bw_full, bw_stored, bw_dest>>
    /\ UNCHANGED <<treeVars, loadVars, batchVars, oneVars, buildVars, detVars,
                   packVars, matchVars, tableVars, jobVars>>

\* create_dir_all, File::create and archive.write: each can fail, and a
\* failure leaves what the steps before it have done
EncodeWrite ==
    \E reached \in {"nothing", "dirs", "created", "written"} :
        /\ bw_pc = "write"
        /\ bw_pc' = "returned"
        /\ bw_result' = Some(IF reached = "written" THEN "Ok" ELSE "Io")
        /\ bw_dest' = IF reached = "nothing" THEN bw_dest
                      ELSE IF reached = "dirs" THEN [bw_dest EXCEPT !.dirs = TRUE]
                      ELSE IF reached = "created" THEN [file |-> "truncated", dirs |-> TRUE]
                      ELSE [file |-> "new", dirs |-> TRUE]
        /\ UNCHANGED <<bw_kind, bw_compress, bw_entries, bw_state, bw_current,
                       processed_count, bw_calls, bw_saved, bw_full, bw_stored>>
        /\ UNCHANGED <<treeVars, loadVars, batchVars, oneVars, buildVars, detVars,
                       packVars, matchVars, tableVars, jobVars>>

NextEncode ==
    \/ EncodeBegin
    \/ EncodeFile
    \/ EncodeCount
    \/ EncodeProgress
    \/ EncodeSaveError
    \/ EncodeCollect
    \/ EncodeWrite

\* one build of every file set of the model, on each of the three build paths
SpecEncode == InitEncode /\ [][NextEncode]_vars

(***************************************************************************)
(* The background jobs of the window (state.rs setup_open_file,             *)
(* setup_open_folder, setup_extract, setup_pack)                            *)
(***************************************************************************)
\* largest number of jobs started, and of files one extraction or pack handles
MaxJobs == 2
MaxSteps == 2

\* what the user opens: an archive that lists, one that does not, a folder,
\* and an archive whose listing has an entry name beginning with a separator
JobSources ==
    {[kind |-> "archive", ok |-> TRUE, paths |-> <<PathPool[1]>>],
     [kind |-> "archive", ok |-> FALSE, paths |-> <<>>],
     [kind |-> "folder", ok |-> TRUE, paths |-> <<PathPool[4]>>],
     [kind |-> "archive", ok |-> TRUE, paths |-> RootedPaths]}

\* a reset that raises the flag
ResetCancelRaises(flag) == TRUE

\* reset_cancel: self.cancelled.store(false, SeqCst)
ResetCancel(flag) == FALSE

\* a window some time after it was opened
InitJobs ==
    /\ InitTree
    /\ BatchIdle
    /\ OneIdle
    /\ BuildIdle
    /\ DetIdle
    /\ PackIdle
    /\ MatchIdle
    /\ TableIdle
    /\ EncIdle
    /\ is_processing = FALSE
    /\ jobs = <<>>
    /\ arcs = <<FALSE>>
    /\ state_arc = 1
    /\ loaded \in {"none", "archive", "folder"}
    /\ alive = TRUE

notJobs == <<treeVars, loadVars, batchVars, oneVars, buildVars, detVars, packVars,
             matchVars, tableVars, encVars>>

\* on_open_file / on_open_folder with a path picked in the dialog
OpenStart ==
    \E src \in JobSources :
        /\ alive
        /\ Len(jobs) < MaxJobs
        /\ is_processing' = TRUE
        /\ jobs' = Append(jobs, [kind |-> "load", pc |-> "running", arc |-> 0,
                                 left |-> 0, result |-> "", src |-> src])
        /\ UNCHANGED <<arcs, state_arc, loaded, alive, notJobs>>

\* on_extract (an archive is loaded, files are selected, a folder is picked)
\* and on_pack (a folder is loaded, files are selected, an output is picked)
WorkStart(kind) ==
    \E n \in 1..MaxSteps :
        /\ alive
        /\ Len(jobs) < MaxJobs
        /\ loaded = (IF kind = "extract" THEN "archive" ELSE "folder")
        /\ arcs' = [arcs EXCEPT ![state_arc] = ResetCancel(@)]
        /\ is_processing' = TRUE
        /\ jobs' = Append(jobs, [kind |-> kind, pc |-> "running", arc |-> state_arc,
                                 left |-> n, result |-> "", src |-> [kind |-> kind]])
        /\ UNCHANGED <<state_arc, loaded, alive, notJobs>>

ExtractStart == WorkStart("extract")

PackStart == WorkStart("pack")

\* one step of the thread of job j.  A load makes its AppState and loads into
\* it; a build_tree_dfs that never returns overflows the stack, which ends
\* the process.  An extraction or a pack handles one file: it loads the
\* flag, then the file is decoded or read, which may fail.
JobStepOf(j) ==
    /\ alive
    /\ j \in 1..Len(jobs)
    /\ jobs[j].pc = "running"
    /\ IF jobs[j].kind = "load"
       THEN /\ arcs' = Append(arcs, FALSE)
            /\ alive' = ~(jobs[j].src.ok /\ BuildOverflows(jobs[j].src.paths))
            /\ jobs' = [jobs EXCEPT ![j].arc = Len(arcs) + 1,
                                    ![j].pc = IF alive' THEN "finished" ELSE "aborted",
                                    ![j].result = IF ~alive' THEN ""
                                                  ELSE IF jobs[j].src.ok THEN "Ok"
                                                  ELSE "Err"]
       ELSE /\ \E file_ok \in BOOLEAN :
                 jobs' = [jobs EXCEPT
                     ![j].left = IF ~arcs[jobs[j].arc] /\ file_ok THEN @ - 1 ELSE @,
                     ![j].pc = IF arcs[jobs[j].arc] \/ ~file_ok \/ jobs[j].left = 1
                               THEN "finished" ELSE "running",
                     ![j].result = IF arcs[jobs[j].arc] THEN "Cancelled"
                                   ELSE IF ~file_ok THEN "Err"
                                   ELSE IF jobs[j].left = 1 THEN "Ok" ELSE ""]
            /\ UNCHANGED <<arcs, alive>>
    /\ UNCHANGED <<is_processing, state_arc, loaded, notJobs>>

\* the closure job j handed to upgrade_in_event_loop: a load that succeeded
\* replaces the AppState, and every closure ends with set_is_processing(false)
JobDeliverOf(j) ==
    /\ alive
    /\ j \in 1..Len(jobs)
    /\ jobs[j].pc = "finished"
    /\ jobs' = [jobs EXCEPT ![j].pc = "delivered"]
    /\ is_processing' = FALSE
    /\ IF jobs[j].kind = "load" /\ jobs[j].result = "Ok"
       THEN state_arc' = jobs[j].arc /\ loaded' = jobs[j].src.kind
       ELSE UNCHANGED <<state_arc, loaded>>
    /\ UNCHANGED <<arcs, alive, notJobs>>

JobStep == \E j \in 1..MaxJobs : JobStepOf(j)

JobDeliver == \E j \in 1..MaxJobs : JobDeliverOf(j)

NextJobs ==
    \/ OpenStart
    \/ ExtractStart
    \/ PackStart
    \/ JobStep
    \/ JobDeliver

\* the jobs of the window, each thread and the event loop scheduled fairly
SpecJobs ==
    /\ InitJobs
    /\ [][NextJobs]_vars
    /\ \A j \in 1..MaxJobs : WF_vars(JobStepOf(j)) /\ WF_vars(JobDeliverOf(j))

(***************************************************************************)
(* Tri-state selection                                                      *)
(***************************************************************************)
\* a is a proper ancestor of node n (following parent links)
RECURSIVE IsAncestor(_, _, _)
IsAncestor(t, a, n) ==
    /\ Node(t, n).parent # None
    /\ \/ Node(t, n).parent[1] = a
       \/ IsAncestor(t, a, Node(t, n).parent[1])

\* the leaves (file nodes) below folder i
LeavesBelow(t, i) ==
    {n \in 0..(Len(t) - 1) : ~Node(t, n).is_folder /\ IsAncestor(t, i, n)}

FolderIndices(t) == {i \in 0..(Len(t) - 1) : Node(t, i).is_folder}

\* the tri-state of folder i recomputed from the leaves below it
TriStateFromLeaves(t, i) ==
    LET leaves == LeavesBelow(t, i)
        all == \A n \in leaves : Node(t, n).selected
        some == \E n \in leaves : Node(t, n).selected
    IN  /\ Node(t, i).selected = all
        /\ Node(t, i).partially_selected = (some /\ ~all)

\* C1 (as claimed): after any sequence of toggle_select calls on a built tree,
\* every folder, a folder or root without leaves included, has selected = TRUE
\* iff every leaf below it is selected and partially_selected = TRUE iff some
\* but not all of them are.
C1_TriStateEveryFolder ==
    \A i \in FolderIndices(tree) : TriStateFromLeaves(tree, i)

\* The same recomputation restricted to the folders that have a leaf below
\* them: this is what toggle_select maintains.
TriStateFoldersWithLeaves ==
    \A i \in FolderIndices(tree) :
        LeavesBelow(tree, i) # {} => TriStateFromLeaves(tree, i)

\* C2: no node is selected and partially selected at once, and no leaf is
\* ever partially selected, under every interleaving of the tree handlers.
C2_SelectedExcludesPartial ==
    \A i \in 0..(Len(tree) - 1) :
        /\ ~(Node(tree, i).selected /\ Node(tree, i).partially_selected)
        /\ ~Node(tree, i).is_folder => ~Node(tree, i).partially_selected

\* C2's case: a nested folder is fully selected below a partially selected
\* folder, after a toggle, with a collapsed folder and a search filter set.
C2_Witness ==
    /\ \E i, j \in FolderIndices(tree) :
          /\ Node(tree, i).partially_selected
          /\ IsAncestor(tree, i, j)
          /\ Node(tree, j).selected
          /\ ~Node(tree, j).expanded
    /\ search_filter # <<>>

(***************************************************************************)
(* Batch extraction                                                         *)
(***************************************************************************)
Matched(k) == LookupKey(format, archive[k]) \in WantedSet(format, wanted_files)
MatchedEntries == {k \in 1..Len(archive) : Matched(k)}
NoSinkFailed == \A u \in 1..Len(units) : uerr[u] \notin {"Io", "Cancelled"}
NoDecodeFailed == \A u \in 1..Len(units) : uerr[u] # "Decode"
SinkOncePerMatch ==
    /\ \A k \in 1..Len(archive) : sink_calls[k] = IF Matched(k) THEN 1 ELSE 0
    /\ result = Some(Ok(Cardinality(MatchedEntries)))

C4_FailureReportsCount ==
    (bpc = "returned" /\ FailedUnits # {}) =>
        (result # None /\ result[1].count = Some(extracted))

\* C5: a batch of N wanted files whose cancellation flag was set after its
\* first unit completed starts no unit after the flag was observed set, ends
\* Cancelled, has completed fewer than N units, and keeps what it has written
\* (stated for the batches in which every entry decodes).
C5_CancelStopsBatch ==
    (bpc = "returned" /\ cancelled /\ NoDecodeFailed) =>
        /\ ~started_late
        /\ result = Some(Err("Cancelled"))
        /\ extracted < Len(wanted_files)
        /\ Cardinality(written) = caller_count

\* C10: when the wanted list is the archive's own listing, every entry decodes
\* and no callback has failed, a returned batch has invoked the callback for
\* every listed entry and has returned the number of listed entries.
C10_ListedEntriesAllExtracted ==
    (/\ bpc = "returned"
     /\ wanted_files = ListArchiveFiles(format, archive)
     /\ NoSinkFailed /\ NoDecodeFailed) =>
        /\ \A k \in 1..Len(archive) : sink_calls[k] >= 1
        /\ result = Some(Ok(Len(archive)))

(***************************************************************************)
(* Single-file extraction                                                   *)
(***************************************************************************)
\* a path with letter case ignored and both separators treated alike
Canon(path) == ToLower(Replace(path, FS, BS))

\* the entries whose listed path equals the request up to case and separator
SamePathEntries ==
    {k \in 1..Len(archive) : Canon(EntryPath(format, archive[k])) = Canon(file_path)}

\* C9: extract_archive_file returns the bytes of an entry whose path equals the
\* requested path up to letter case and separator when there is one, and fails
\* with NotFound when there is none (stated for requests whose matching
\* entries all decode).
C9_ExtractOneIffSamePath ==
    (found # None /\ \A k \in SamePathEntries : Decodes(format, archive[k])) =>
        IF SamePathEntries = {}
        THEN found[1] = Failed("NotFound")
        ELSE \E k \in SamePathEntries : found[1] = Found(archive[k].data)

(***************************************************************************)
(* Builders                                                                 *)
(***************************************************************************)
\* the path of a builder key: directory and file name joined, root files bare
KeyPath(key) ==
    IF key[1] = <<>> \/ key[1] = <<".">> THEN key[2] ELSE key[1] \o <<FS>> \o key[2]

\* the entries an archive holds under the path of a builder key
UnderPath(arch, key) ==
    {k \in 1..Len(arch) :
        Canon(EntryPath(BuiltFormat(builder), arch[k])) = Canon(KeyPath(key))}

LastAdd == adds[Len(adds)]
AddedKeys == {AddFileKey(builder, adds[i].path) : i \in 1..Len(adds)}

\* C6: when the last add_file call repeats the normalized key of an earlier
\* call, file_count counts that key once and every archive built holds, under
\* that path, the data of the last call only.
C6_LastWriteWins ==
    (/\ builds # <<>>
     /\ \E i \in 1..(Len(adds) - 1) :
            AddFileKey(builder, adds[i].path) = AddFileKey(builder, LastAdd.path)) =>
        /\ FileCount(files) = Cardinality(AddedKeys)
        /\ \A b \in 1..Len(builds) :
              LET hits == UnderPath(builds[b].archive, AddFileKey(builder, LastAdd.path))
              IN  /\ hits # {}
                  /\ \A k \in hits : builds[b].archive[k].data = LastAdd.data

\* C7: two builds of the same file set hand the same sequence of entries to
\* the archive.
C7_SameEntrySequence ==
    Len(builds) = 2 => builds[1].processed = builds[2].processed

\* C8: listing the built archive and extracting every listed path yields the
\* added paths (up to letter case and separator) and, for each, the bytes added.
C8_RoundTrip ==
    roundtrip # None =>
        LET rt == roundtrip[1]
        IN  /\ \A key \in DOMAIN files :
                  \E k \in 1..Len(rt) :
                      /\ Canon(rt[k].path) = Canon(KeyPath(key))
                      /\ rt[k].res = Found(files[key])
            /\ \A k \in 1..Len(rt) :
                  \E key \in DOMAIN files : Canon(rt[k].path) = Canon(KeyPath(key))

\* two builds of the same file set write the same archive
SameArchive == Len(builds) = 2 => builds[1].archive = builds[2].archive

\* C13: build_with_progress on a builder without files fails with
\* EmptyArchive, invokes no progress callback and creates neither the output
\* file nor its parent directories.
C13_EmptyBuildFailsCleanly ==
    (build_result # None /\ FileCount(files) = 0) =>
        /\ build_result = Some("EmptyArchive")
        /\ progress_calls = 0
        /\ out_file = None
        /\ ~out_dirs

\* an empty builder of either kind has been built
C13_Witness ==
    /\ build_result = Some("EmptyArchive")
    /\ adds = <<>>
    /\ builder = "ba2"

(***************************************************************************)
(* Format detection                                                         *)
(***************************************************************************)
\* whether a file name ends, whatever the letter case, with a dot and ext,
\* behind at least one other character
HasExtension(name, ext) ==
    /\ Len(name) > Len(ext) + 1
    /\ ToLower(SubSeq(name, Len(name) - Len(ext), Len(name))) = <<".">> \o ext

\* some operation has called detect_format
Detected == listed # None \/ found # None \/ bpc # "idle"

\* C11: detect_format answers the format of the header's signature whenever
\* the file opens and carries one, whatever the extension; otherwise .bsa in
\* any letter case gives Bsa, .ba2 gives Ba2, anything else gives none.
C11_SignatureThenExtension ==
    Detected =>
        format = IF openable /\ signature # "None" THEN SigFormat(signature)
                 ELSE IF HasExtension(archive_path, <<"b", "s", "a">>) THEN "Bsa"
                 ELSE IF HasExtension(archive_path, <<"b", "a", "2">>) THEN "Ba2"
                 ELSE "None"

\* a file named a.ba2 whose header carries the TES3 signature was detected
C11_Witness ==
    /\ Detected
    /\ archive_path = <<"a", ".", "b", "a", "2">>
    /\ openable /\ signature = "TES3"
    /\ format = "Tes3Bsa"

\* neither the header nor the extension names a format
Undetectable ==
    /\ ~(openable /\ signature # "None")
    /\ ~HasExtension(archive_path, <<"b", "s", "a">>)
    /\ ~HasExtension(archive_path, <<"b", "a", "2">>)

\* C12: when detection fails for signature and extension, list, extractOne
\* and extractBatch each return UnknownFormat at once, and the batch invokes
\* the sink zero times.
C12_UnknownFormatEverywhere ==
    Undetectable =>
        /\ listed # None => listed = Some(ListErr("UnknownFormat"))
        /\ found # None => found = Some(Failed("UnknownFormat"))
        /\ bpc # "idle" =>
              /\ bpc = "returned"
              /\ result = Some(Err("UnknownFormat"))
              /\ units = <<>>
              /\ caller_count = 0 /\ written = {} /\ extracted = 0

\* all three operations have been called on a file named a.bs without signature
C12_Witness ==
    /\ Undetectable
    /\ archive_path = <<"a", ".", "b", "s">>
    /\ listed # None /\ found # None /\ bpc = "returned"

(***************************************************************************)
(* Packing                                                                  *)
(***************************************************************************)
\* C14: a pack with the Morrowind profile, from the command line or the
\* window, ends with UnsupportedOperation, adds no file to a builder (it
\* creates none) and neither creates nor writes the output archive.
C14_Tes3PackUnsupported ==
    game_version = "Morrowind" =>
        /\ pack_result # None => pack_result = Some(Err("UnsupportedOperation"))
        /\ builder = "none"
        /\ adds = <<>> /\ files = EmptyMap
        /\ build_result = None /\ out_file = None /\ ~out_dirs

\* pack_files has ended for Morrowind with files selected
C14_Witness ==
    /\ game_version = "Morrowind"
    /\ pack_mode = "gui"
    /\ Len(pack_list) = 2
    /\ pack_result = Some(Err("UnsupportedOperation"))

(***************************************************************************)
(* Search                                                                   *)
(***************************************************************************)
\* a pattern in which each '*' stands for zero or more characters matches the
\* whole text
RECURSIVE Glob(_, _)
Glob(pattern, text) ==
    IF pattern = <<>> THEN text = <<>>
    ELSE IF pattern[1] = "*"
    THEN Glob(Tail(pattern), text) \/ (text # <<>> /\ Glob(pattern, Tail(text)))
    ELSE text # <<>> /\ text[1] = pattern[1] /\ Glob(Tail(pattern), Tail(text))

\* the text contains the word as a substring
Contains(text, word) ==
    \E k \in 0..(Len(text) - Len(word)) : SubSeq(text, k + 1, k + Len(word)) = word

\* the reference matcher: substring without '*', whole-path pattern with '*'
RefMatch(filter, path) ==
    IF "*" \in Range(filter) THEN Glob(ToLower(filter), ToLower(path))
    ELSE Contains(ToLower(path), ToLower(filter))

\* C16: matches_search agrees with the reference matcher on every filter and
\* path.
C16_MatchesReference ==
    ms_result # None => ms_result[1] = RefMatch(ms_filter, ms_path)

(***************************************************************************)
(* Visibility                                                               *)
(***************************************************************************)
\* the node itself and every node below it
SelfAndDescendants(t, n) ==
    {n} \cup {m \in 0..(Len(t) - 1) : IsAncestor(t, n, m)}

\* some proper ancestor of n is collapsed
AncestorCollapsed(t, n) ==
    \E a \in 0..(Len(t) - 1) : IsAncestor(t, a, n) /\ ~Node(t, a).expanded

\* the filter is set and matches neither n nor anything below n
FilteredOut(t, filter, n) ==
    /\ filter # <<>>
    /\ \A m \in SelfAndDescendants(t, n) : ~MatchesSearch(filter, Node(t, m).path)

\* C15: for every node, under the current filter and under every filter of
\* the search box, is_visible is false exactly when the filter is non-empty
\* and matches neither the node nor a descendant, or some ancestor is
\* collapsed; with the empty filter only the ancestors' expanded flags count
C15_VisibleIffMatchAndExpanded ==
    \A n \in 0..(Len(tree) - 1) :
        \A filter \in SearchPool \cup {search_filter} :
            /\ ~IsVisible(tree, filter, n)
                   <=> (FilteredOut(tree, filter, n) \/ AncestorCollapsed(tree, n))
            /\ IsVisible(tree, <<>>, n) <=> ~AncestorCollapsed(tree, n)

\* a node that matches the filter in force, below an expanded parent whose
\* own parent is collapsed
C15_Witness ==
    /\ search_filter # <<>>
    /\ \E n \in 0..(Len(tree) - 1) :
          /\ MatchesSearch(search_filter, Node(tree, n).path)
          /\ Node(tree, n).parent # None
          /\ Node(tree, Node(tree, n).parent[1]).expanded
          /\ AncestorCollapsed(tree, n)
          /\ ~IsVisible(tree, search_filter, n)

\* the example listing a/b.txt, a/c.txt, d.txt
TxtFilter == <<"*", ".", "t", "x", "t">>
PathAB == <<"a", "\\", "b", ".", "t", "x", "t">>
PathAC == <<"a", "\\", "c", ".", "t", "x", "t">>
PathD == <<"d", ".", "t", "x", "t">>

\* the index of the node with the given path and kind
NodeAt(t, path, is_folder) ==
    CHOOSE n \in 0..(Len(t) - 1) :
        Node(t, n).path = path /\ Node(t, n).is_folder = is_folder

\* the tree of the example listing is loaded and all its folders are expanded
ExampleExpanded ==
    /\ loaded_paths = Some(ExamplePaths)
    /\ load_state \in {"built", "used"}
    /\ \A i \in FolderIndices(tree) : Node(tree, i).expanded

\* C17: in the tree built from a/b.txt, a/c.txt and d.txt with every folder
\* expanded, the filter "*.txt" leaves all three leaves visible, and the
\* filter "b" leaves the leaf a/b.txt and the folder a visible and hides
\* a/c.txt and d.txt
C17_ExampleVisibility ==
    ExampleExpanded =>
        /\ search_filter = TxtFilter =>
              /\ IsVisible(tree, search_filter, NodeAt(tree, PathAB, FALSE))
              /\ IsVisible(tree, search_filter, NodeAt(tree, PathAC, FALSE))
              /\ IsVisible(tree, search_filter, NodeAt(tree, PathD, FALSE))
        /\ search_filter = <<"b">> =>
              /\ IsVisible(tree, search_filter, NodeAt(tree, PathAB, FALSE))
              /\ IsVisible(tree, search_filter, NodeAt(tree, <<"a">>, TRUE))
              /\ ~IsVisible(tree, search_filter, NodeAt(tree, PathAC, FALSE))
              /\ ~IsVisible(tree, search_filter, NodeAt(tree, PathD, FALSE))

\* the example tree under the filter "b": the folder a shows, a/c.txt does not
C17_Witness ==
    /\ ExampleExpanded
    /\ search_filter = <<"b">>
    /\ IsVisible(tree, search_filter, NodeAt(tree, <<"a">>, TRUE))
    /\ ~IsVisible(tree, search_filter, NodeAt(tree, PathAC, FALSE))

(***************************************************************************)
(* The selection handed to extraction and packing                           *)
(***************************************************************************)
SelectedLeaves(t) ==
    {n \in 0..(Len(t) - 1) : ~Node(t, n).is_folder /\ Node(t, n).selected}

\* the position of index n among the indices of S, in increasing order
Rank(S, n) == Cardinality({m \in S : m < n}) + 1

\* get_selected_files lists the selected leaves, and nothing else, in the
\* order of the arena, with separator-normalized paths, and agrees with the
\* two counters
SelectedFilesExact(t) ==
    LET out == GetSelectedFiles(t)
        S == SelectedLeaves(t)
    IN  /\ Len(out) = Cardinality(S)
        /\ \A n \in S : out[Rank(S, n)] = Node(t, n).path
        /\ \A k \in 1..Len(out) : FS \notin Range(out[k])
        /\ Len(out) = SelectedCount(t)
        /\ SelectedCount(t) <= TotalCount(t)

\* two trees with the same nodes and the same selected flags
SameSelection(t1, t2) ==
    /\ Len(t1) = Len(t2)
    /\ \A i \in 1..Len(t1) :
          /\ t1[i].path = t2[i].path
          /\ t1[i].is_folder = t2[i].is_folder
          /\ t1[i].selected = t2[i].selected

\* C18: in every reachable state get_selected_files returns exactly the
\* normalized paths of the selected leaves, no folder path, in the order of
\* the arena; its length is selected_count and never exceeds total_count;
\* and a step that changes the search filter or the expanded flags, but no
\* selected flag, leaves the result as it was
C18_SelectedFilesAreSelectedLeaves ==
    /\ [](SelectedFilesExact(tree))
    /\ [][SameSelection(tree, tree')
            => GetSelectedFiles(tree') = GetSelectedFiles(tree)]_vars

\* some leaves selected and some not, a selected folder among the nodes, a
\* folder collapsed and a filter in force
C18_Witness ==
    /\ SelectedLeaves(tree) # {}
    /\ SelectedCount(tree) < TotalCount(tree)
    /\ \E i \in FolderIndices(tree) : Node(tree, i).selected
    /\ \E i \in FolderIndices(tree) : ~Node(tree, i).expanded
    /\ search_filter # <<>>
    /\ Len(GetSelectedFiles(tree)) = SelectedCount(tree)

(***************************************************************************)
(* The tree right after build_tree_from_paths                               *)
(***************************************************************************)
\* the input paths with every "/" turned into "\"
Normalized(paths) == [k \in 1..Len(paths) |-> Replace(paths[k], FS, BS)]

\* the proper folder prefixes of a normalized path: what stands before each
\* of its separators
PrefixesOf(p) == {SubSeq(p, 1, i - 1) : i \in {j \in 1..Len(p) : p[j] = BS}}

AllPrefixes(paths) ==
    UNION {PrefixesOf(Normalized(paths)[k]) : k \in 1..Len(paths)}

\* a path without its last component: the empty path for a single component
WithoutLast(p) ==
    LET seps == {j \in 1..Len(p) : p[j] = BS}
    IN  IF seps = {} THEN <<>>
        ELSE SubSeq(p, 1, (CHOOSE j \in seps : \A i \in seps : i <= j) - 1)

\* the tree t is the one the claim describes for the input paths
BuildStructure(t, paths) ==
    LET norm == Normalized(paths)
        nodes == 1..(Len(t) - 1)
        folders == {n \in nodes : Node(t, n).is_folder}
        leaves == {n \in nodes : ~Node(t, n).is_folder}
    IN  /\ Len(t) >= 1
        /\ Node(t, 0).is_folder /\ Node(t, 0).parent = None
        /\ Node(t, 0).path = <<>>
        \* one folder node for each distinct proper folder prefix
        /\ {Node(t, n).path : n \in folders} = AllPrefixes(paths)
        /\ Cardinality(folders) = Cardinality(AllPrefixes(paths))
        \* one leaf for each input path
        /\ Cardinality(leaves) = Len(paths)
        /\ \A k \in 1..Len(norm) :
              Cardinality({n \in leaves : Node(t, n).path = norm[k]})
                  = Cardinality({j \in 1..Len(norm) : norm[j] = norm[k]})
        \* the parent is the node of the path without its last component
        /\ \A n \in nodes :
              /\ Node(t, n).parent # None
              /\ LET par == Node(t, n).parent[1]
                     up == WithoutLast(Node(t, n).path)
                 IN  /\ par \in 0..(Len(t) - 1)
                     /\ Node(t, par).is_folder
                     /\ Node(t, par).path = up
                     /\ (up = <<>>) <=> (par = 0)
        \* every node starts selected, expanded and not partial
        /\ \A n \in 0..(Len(t) - 1) :
              /\ Node(t, n).selected
              /\ Node(t, n).expanded
              /\ ~Node(t, n).partially_selected

\* C19: after build_tree_from_paths the tree holds, besides the root, one
\* folder node for each distinct proper folder prefix of the normalized
\* paths and one leaf for each input path, each under the node of its path
\* without the last component, every node selected, expanded and not
\* partial, and no node of an earlier tree
C19_BuildStructure ==
    loaded_paths # None /\ load_state \in {"built", "overflow"}
        => /\ load_state = "built"
           /\ BuildStructure(tree, loaded_paths[1])

\* the same for the builds that return
BuildStructureWhenBuilt ==
    load_state = "built" => BuildStructure(tree, loaded_paths[1])

(***************************************************************************)
(* The order of the children                                                *)
(***************************************************************************)
\* the children of node n, as nodes, in the order of its children list
ChildNodes(t, n) ==
    [k \in 1..Len(Node(t, n).children) |-> Node(t, Node(t, n).children[k])]

\* C20: in every node's children list all folder children precede all file
\* children, and within the folders and within the files the names are in
\* non-decreasing case-insensitive order
C20_ChildrenFoldersFirstByName ==
    \A n \in 0..(Len(tree) - 1) :
        LET ch == ChildNodes(tree, n)
        IN  \A k, l \in 1..Len(ch) :
                k < l =>
                    /\ ~(~ch[k].is_folder /\ ch[l].is_folder)
                    /\ ch[k].is_folder = ch[l].is_folder
                           => ~StrLess(ToLower(ch[l].name), ToLower(ch[k].name))

\* a freshly built tree with a node whose children are two folders, in an
\* order that only holds when case is ignored, followed by a file
C20_Witness ==
    /\ load_state = "built"
    /\ \E n \in 0..(Len(tree) - 1) :
          LET ch == ChildNodes(tree, n)
          IN  \E k, l, m \in 1..Len(ch) :
                  /\ k < l /\ l < m
                  /\ ch[k].is_folder /\ ch[l].is_folder /\ ~ch[m].is_folder
                  /\ StrLess(ch[l].name, ch[k].name)

(***************************************************************************)
(* The root node                                                            *)
(***************************************************************************)
\* C21: in every reachable state of the tree model, the state before the
\* first load included, a root node exists at index 0 with depth 0 and no
\* parent
C21_RootAlwaysExists ==
    /\ Len(tree) >= 1
    /\ Node(tree, 0).depth = 0
    /\ Node(tree, 0).parent = None

\* the same once a build has returned
RootExistsOnceBuilt ==
    load_state \in {"built", "used"} =>
        /\ Len(tree) >= 1
        /\ Node(tree, 0).depth = 0
        /\ Node(tree, 0).parent = None

(***************************************************************************)
(* Loads in the background                                                  *)
(***************************************************************************)
\* a tree without its flags
Shape(t) ==
    [i \in 1..Len(t) |->
        [path |-> t[i].path, name |-> t[i].name, depth |-> t[i].depth,
         is_folder |-> t[i].is_folder, parent |-> t[i].parent,
         children |-> t[i].children]]

\* the shared tree is the empty tree of AppState::new or, but for its flags,
\* a tree build_tree_from_paths has finished
CompleteTree ==
    \/ loaded_paths = None /\ tree = <<>>
    \/ /\ loaded_paths # None
       /\ \E b \in BuiltTrees :
             b.paths = loaded_paths[1] /\ Shape(b.tree) = Shape(tree)

\* a step of a load thread, or the delivery of a failed load
ThreadStepOrFailure ==
    /\ Len(loads') = Len(loads)
    /\ \E i \in 1..Len(loads) :
          /\ loads'[i].pc # loads[i].pc
          /\ loads[i].pc \in {"spawned", "building", "err"}

\* the delivery of a load that succeeded
Replacement ==
    /\ Len(loads') = Len(loads)
    /\ \E i \in 1..Len(loads) : loads[i].pc = "done" /\ loads'[i].pc = "delivered"

\* C22: while loads run in the background the shared state holds a complete
\* tree at every moment, never a partially built one; no step of a load
\* thread and no failed load changes the shared tree, filter, archive path,
\* entries or mode; and the new tree arrives in one step, whole
C22_AtomicReplacement ==
    /\ [](CompleteTree)
    /\ [][/\ ThreadStepOrFailure => UNCHANGED <<tree, search_filter, shared>>
          /\ Replacement => \E i \in 1..Len(loads) :
                               /\ loads[i].pc = "done"
                               /\ tree' = loads[i].new_state.tree
                               /\ shared' = loads[i].new_state.fields]_vars

\* a load has been delivered and its tree worked on, and a later load thread
\* holds a tree of its own that is only partly built
C22_Witness ==
    /\ load_state = "used"
    /\ Len(tree) > 1
    /\ \E i \in 1..Len(loads) :
          /\ loads[i].pc = "building"
          /\ loads[i].new_state.tree # <<>>
          /\ loads[i].new_state.tree # tree
          /\ loads[i].new_state.fields # shared

(***************************************************************************)
(* Opening the archive                                                      *)
(***************************************************************************)
\* C23: a batch extraction call that returns a count has opened the archive
\* file exactly once between its entry and its return, whatever the format
\* and the number of wanted paths
C23_BatchOpensOnce ==
    (bpc = "returned" /\ result # None /\ result[1].ok) => opens = 1

(***************************************************************************)
(* The game profile table                                                   *)
(***************************************************************************)
\* the profile whose CLI name is the name but for letter case, if there is one
ProfilesNamed(name) == {v \in GameVersions : ToLower(CliName(v)) = ToLower(name)}

\* C24: for every profile v, from_index(index(v)) = v and all()[index(v)] = v;
\* indices and CLI names are pairwise distinct; from_cli_name of a profile's
\* CLI name in any letter case returns the profile, and of any other name
\* none; from_index of an index outside 0..10 returns Fallout4Fo76
C24_ProfileTableConsistent ==
    /\ \A v \in GameVersions :
          /\ FromIndex(Index(v)) = v
          /\ All[Index(v) + 1] = v
    /\ \A v, w \in GameVersions :
          v # w => Index(v) # Index(w) /\ CliName(v) # CliName(w)
    /\ gv_by_name # None =>
          /\ \A v \in ProfilesNamed(gv_name) : gv_by_name[1] = Some(v)
          /\ ProfilesNamed(gv_name) = {} => gv_by_name[1] = None
    /\ gv_by_index # None =>
          /\ gv_index \in 0..10 => Index(gv_by_index[1]) = gv_index
          /\ gv_index \notin 0..10 => gv_by_index[1] = "Fallout4Fo76"

\* a CLI name typed with capitals has been looked up, and so has an index
\* beyond the table
C24_Witness ==
    /\ gv_by_name # None
    /\ gv_name # ToLower(gv_name)
    /\ gv_by_name[1] # None
    /\ gv_by_index # None
    /\ gv_index > 10

(***************************************************************************)
(* What the handlers change                                                 *)
(***************************************************************************)
\* node n of t2 differs from node n of t1 in its selection flags at most
SameButSelection(t1, t2, n) ==
    [Node(t2, n) EXCEPT !.selected = Node(t1, n).selected,
                        !.partially_selected = Node(t1, n).partially_selected]
        = Node(t1, n)

\* what the claim says of toggle_select(i) on the tree t
ToggleSelectFrame(t, i) ==
    LET t2 == ToggleSelectOp(t, i)
    IN  IF i >= Len(t) THEN t2 = t
        ELSE /\ Len(t2) = Len(t)
             /\ \A n \in 0..(Len(t) - 1) :
                   IF n \in SelfAndDescendants(t, i)
                   THEN Node(t2, n) = [Node(t, n) EXCEPT
                                          !.selected = ~Node(t, i).selected,
                                          !.partially_selected = FALSE]
                   ELSE IF IsAncestor(t, n, i)
                   THEN SameButSelection(t, t2, n)
                   ELSE Node(t2, n) = Node(t, n)

\* C25: in every reachable state and for every index, toggle_select(i) sets
\* node i and every descendant to the negation of i's old selected flag with
\* partially_selected cleared, changes only the two selection flags of the
\* ancestors of i, leaves every other node as it was, and changes nothing
\* when i is out of range
C25_ToggleSelectFrame ==
    \A i \in 0..Len(tree) : ToggleSelectFrame(tree, i)

\* a partially selected folder with a node beside its subtree and its
\* ancestors: toggling it selects its whole subtree
C25_Witness ==
    /\ load_state = "used"
    /\ \E i \in FolderIndices(tree) :
          /\ Node(tree, i).partially_selected
          /\ Node(tree, i).parent # None
          /\ \E n \in 0..(Len(tree) - 1) :
                n \notin SelfAndDescendants(tree, i) /\ ~IsAncestor(tree, n, i)
          /\ \A n \in SelfAndDescendants(tree, i) :
                Node(ToggleSelectOp(tree, i), n).selected

\* what the claim says of toggle_expand(i) on the tree t
ToggleExpandFrame(t, i) ==
    LET t2 == ToggleExpandOp(t, i)
    IN  /\ Len(t2) = Len(t)
        /\ \A n \in 0..(Len(t) - 1) :
              IF n = i /\ Node(t, n).is_folder
              THEN /\ Node(t2, n).expanded = ~Node(t, n).expanded
                   /\ [Node(t2, n) EXCEPT !.expanded = Node(t, n).expanded] = Node(t, n)
              ELSE Node(t2, n) = Node(t, n)
        /\ ToggleExpandOp(t2, i) = t

\* C26: in every reachable state and for every index, toggle_expand(i) flips
\* the expanded flag of node i when i is a folder and changes no other field
\* of any node, changes nothing on a leaf or an out-of-range index, and
\* applied twice restores the tree
C26_ToggleExpandFrame ==
    \A i \in 0..Len(tree) : ToggleExpandFrame(tree, i)

\* a tree worked on by the handlers, with a collapsed folder that has
\* children and with a leaf
C26_Witness ==
    /\ load_state = "used"
    /\ \E i \in FolderIndices(tree) :
          ~Node(tree, i).expanded /\ Node(tree, i).children # <<>>
    /\ \E n \in 0..(Len(tree) - 1) :
          /\ ~Node(tree, n).is_folder
          /\ ToggleExpandOp(tree, n) = tree

\* the paths of all leaves of t, in the order of the arena
AllLeafPaths(t) ==
    LET leaves == SelectSeq(t, LAMBDA n : ~n.is_folder)
    IN  [k \in 1..Len(leaves) |-> leaves[k].path]

\* t2 is t with every node's selected flag set to sel, partially_selected
\* cleared, and nothing else changed
AllSetTo(t, t2, sel) ==
    /\ Len(t2) = Len(t)
    /\ \A n \in 0..(Len(t) - 1) :
          /\ Node(t2, n).selected = sel
          /\ ~Node(t2, n).partially_selected
          /\ SameButSelection(t, t2, n)

\* what the claim says of select_all and select_none on the tree t
SelectAllNoneEffect(t) ==
    /\ AllSetTo(t, SelectAllOp(t), TRUE)
    /\ GetSelectedFiles(SelectAllOp(t)) = AllLeafPaths(t)
    /\ AllSetTo(t, SelectNoneOp(t), FALSE)
    /\ GetSelectedFiles(SelectNoneOp(t)) = <<>>

\* a step, other than a load, that turns the tree into its all-selected or
\* its none-selected form
SelectAllNoneStep ==
    /\ load_state' # "built"
    /\ tree' # tree
    /\ tree' \in {SelectAllOp(tree), SelectNoneOp(tree)}

\* C27: from every reachable state select_all leaves every node selected and
\* not partial, select_none leaves every node unselected and not partial,
\* get_selected_files is then the list of all leaves and the empty list, and
\* the expanded flags and the search filter stay as they were
C27_SelectAllNone ==
    /\ [](SelectAllNoneEffect(tree))
    /\ [][SelectAllNoneStep => search_filter' = search_filter]_vars

\* after select_none on a tree with several leaves, a collapsed folder and a
\* filter in force
C27_Witness ==
    /\ load_state = "used"
    /\ TotalCount(tree) >= 2
    /\ \A n \in 0..(Len(tree) - 1) :
          ~Node(tree, n).selected /\ ~Node(tree, n).partially_selected
    /\ \E i \in FolderIndices(tree) : ~Node(tree, i).expanded
    /\ search_filter # <<>>

\* C28: a step that is not a load changes neither the number of nodes nor
\* any node's path, name, depth, is_folder, parent or children list; only
\* the three flags and the search filter change between two loads
C28_StructureFixedBetweenLoads ==
    [][load_state' # "built" => Shape(tree') = Shape(tree)]_vars

\* a tree whose flags and filter have all been changed since it was built,
\* its structure still that of the build
C28_Witness ==
    /\ load_state = "used"
    /\ search_filter # <<>>
    /\ \E n \in 0..(Len(tree) - 1) : ~Node(tree, n).selected
    /\ \E n \in 0..(Len(tree) - 1) : Node(tree, n).partially_selected
    /\ \E n \in 0..(Len(tree) - 1) : ~Node(tree, n).expanded
    /\ \E b \in BuiltTrees :
          /\ b.paths = loaded_paths[1]
          /\ Shape(b.tree) = Shape(tree)
          /\ Len(b.tree) >= 4

(***************************************************************************)
(* The arena is a tree                                                      *)
(***************************************************************************)
\* how often index n stands in the children list of node m
Occurrences(t, m, n) ==
    Cardinality({k \in 1..Len(Node(t, m).children) : Node(t, m).children[k] = n})

\* following parent links from n reaches the root in at most k steps
RECURSIVE RootWithin(_, _, _)
RootWithin(t, n, k) ==
    IF Node(t, n).parent = None THEN n = 0
    ELSE k > 0 /\ RootWithin(t, Node(t, n).parent[1], k - 1)

WellFormed(t) ==
    /\ Node(t, 0).parent = None
    /\ \A n \in 1..(Len(t) - 1) :
          /\ Node(t, n).parent # None
          /\ LET par == Node(t, n).parent[1]
             IN  /\ par \in 0..(n - 1)
                 /\ Node(t, par).is_folder
                 /\ Occurrences(t, par, n) = 1
                 /\ \A m \in 0..(Len(t) - 1) : m # par => Occurrences(t, m, n) = 0
                 /\ Node(t, n).depth = Node(t, par).depth + 1
          /\ RootWithin(t, n, Len(t))

\* C29: in every built tree each non-root node's parent is the index of a
\* folder node smaller than the node's own index, the node stands exactly
\* once in that parent's children list and in no other, its depth is its
\* parent's plus one, and its parent links lead to the root
C29_ParentLinksFormTree ==
    load_state \in {"built", "used"} => WellFormed(tree)

\* a freshly built tree with a leaf three levels down and a folder with
\* more than one child
C29_Witness ==
    /\ load_state = "built"
    /\ \E n \in 0..(Len(tree) - 1) : Node(tree, n).depth = 3 /\ ~Node(tree, n).is_folder
    /\ \E i \in FolderIndices(tree) : i # 0 /\ Len(Node(tree, i).children) >= 2

(***************************************************************************)
(* The scan comes before the fan-out                                        *)
(***************************************************************************)
\* some work unit has begun its decode
SomeUnitStarted == \E u \in 1..Len(ustate) : ustate[u] # "pending"

\* C30: no decode and no sink invocation begins before the scan loop has
\* examined every entry of the archive and collected every wanted one, and
\* once the first work unit has started the matched entries do not change
C30_ScanBeforeFanOut ==
    /\ []((SomeUnitStarted \/ \E k \in 1..Len(sink_calls) : sink_calls[k] > 0)
            => /\ scan_pos = Len(archive)
               /\ units = MatchedUnits(format, archive,
                                       WantedSet(format, wanted_files), 1))
    /\ [][SomeUnitStarted => units' = units]_vars

\* two entries matched and one not, the sink already invoked for one unit
\* while another has not begun
C30_Witness ==
    /\ bpc = "parallel"
    /\ Len(units) >= 2
    /\ Len(units) < Len(archive)
    /\ \E k \in 1..Len(sink_calls) : sink_calls[k] > 0
    /\ \E u \in 1..Len(ustate) : ustate[u] = "pending"

(***************************************************************************)
(* Fail-fast                                                                *)
(***************************************************************************)
\* some callback invocation has returned an error
SinkErred == \E u \in 1..Len(uerr) : uerr[u] \in {"Io", "Cancelled"}

\* no unit that has not yet started is started in this step
NoUnitStarts ==
    \A v \in 1..Len(ustate) : ustate[v] = "pending" => ustate'[v] = "pending"

\* a batch that has returned after a callback error has returned an error
\* and has left no unit half-way
ReturnsErrorAllFinished ==
    (bpc = "returned" /\ SinkErred) =>
        /\ result # None /\ ~result[1].ok
        /\ \A u \in 1..Len(ustate) : ustate[u] \in {"ok", "failed", "pending"}

\* C31: once a callback invocation has returned an error no unit that had not
\* yet started is started, the units already running run to completion, and
\* the batch returns an error instead of a count
C31_NoStartAfterSinkError ==
    /\ [](ReturnsErrorAllFinished)
    /\ [][SinkErred => NoUnitStarts]_vars

\* C31, amended: once try_for_each has recorded the error of a callback
\* invocation no unit that had not yet started is started, the units started
\* before that run to completion, and the batch returns an error instead of
\* a count
C31_NoStartAfterErrorRecorded ==
    /\ [](ReturnsErrorAllFinished)
    /\ [][(SinkErred /\ full) => NoUnitStarts]_vars

\* a returned batch in which a callback failed, one unit was never started
\* and one ran to completion
C31_Witness ==
    /\ bpc = "returned"
    /\ \E u \in 1..Len(uerr) : uerr[u] = "Io" /\ ustate[u] = "failed"
    /\ \E v \in 1..Len(ustate) : ustate[v] = "pending"
    /\ \E w \in 1..Len(ustate) : ustate[w] = "ok"
    /\ result # None /\ ~result[1].ok

(***************************************************************************)
(* Matching of wanted paths                                                 *)
(***************************************************************************)
\* the entries some wanted path names up to letter case and separator
WantedUpToCaseAndSeparator ==
    {k \in 1..Len(archive) :
        \E j \in 1..Len(wanted_files) :
            Canon(wanted_files[j]) = Canon(EntryPath(format, archive[k]))}

\* C32: for each format the entries a returned batch has matched are exactly
\* those whose path equals some wanted path once letter case and separator
\* are normalized on both sides, so the spelling of a wanted path with '/' or
\* '\' and in any letter case does not change the matched set.
C32_MatchUpToCaseAndSeparator ==
    bpc = "returned" => Range(units) = WantedUpToCaseAndSeparator

(***************************************************************************)
(* Listed paths as requests                                                 *)
(***************************************************************************)
\* C33: a path list_archive_files returns, handed unchanged to
\* extract_archive_file on the same archive, is never answered NotFound; this
\* includes the root entries of a TES4 archive, listed as a bare file name.
C33_ListedPathIsFound ==
    (found # None /\ file_path \in Range(ListArchiveFiles(format, archive))) =>
        found[1] # Failed("NotFound")

(***************************************************************************)
(* Encoding failures of a build                                             *)
(***************************************************************************)
\* the files of the build whose encoding fails on its build path
Offending ==
    {u \in 1..Len(bw_entries) :
        \/ bw_kind = "dx10" /\ ~bw_entries[u].texture
        \/ bw_kind = "bsa" /\ bw_compress /\ ~bw_entries[u].compresses}

\* some closure has returned an Err
EncodingFailed == \E u \in 1..Len(bw_entries) : bw_state[u] \in {"erred", "failed"}

\* C34: when the encoding of a file has failed (a texture that does not parse
\* in a texture build, a compression error in a TES4 BSA build), the build
\* that has returned has returned an error naming an offending file, and the
\* destination is as it was before the build: not created, not modified, its
\* parent directories not created.  In a General BA2 build no encoding fails:
\* a file the codec does not compress is stored uncompressed.
C34_EncodingFailureLeavesDestination ==
    /\ (bw_pc = "returned" /\ EncodingFailed) =>
           /\ bw_result = Some("Encode")
           /\ bw_saved # None
           /\ \E u \in Offending : bw_saved[1] = bw_entries[u].path
           /\ bw_dest.file \in {"absent", "old"}
           /\ bw_dest.dirs = (bw_dest.file = "old")
    /\ EncodingFailed => bw_dest.file \in {"absent", "old"}
    /\ bw_kind = "general" =>
           /\ ~EncodingFailed
           /\ bw_result # Some("Encode")
           /\ \A u \in 1..Len(bw_entries) :
                 (bw_state[u] \in {"encoded", "counted", "done"} /\ bw_compress
                    /\ ~bw_entries[u].compresses) => bw_stored[u] = "raw"

\* a TES4 BSA build over an existing destination has failed on a file that
\* does not compress, after another file was encoded and reported
C34_Witness ==
    /\ bw_kind = "bsa"
    /\ bw_pc = "returned"
    /\ bw_result = Some("Encode")
    /\ bw_dest.file = "old"
    /\ \E u \in 1..Len(bw_entries) : bw_state[u] = "failed"
    /\ \E u \in 1..Len(bw_entries) : bw_state[u] = "done"

\* a General BA2 build has been written with a file stored uncompressed
\* because the codec did not compress it
C34_WitnessFallback ==
    /\ bw_kind = "general"
    /\ bw_compress
    /\ bw_result = Some("Ok")
    /\ \E u \in 1..Len(bw_entries) :
          ~bw_entries[u].compresses /\ bw_stored[u] = "raw" /\ bw_state[u] = "done"

(***************************************************************************)
(* The build path of a pack                                                 *)
(***************************************************************************)
\* the lower-cased file name of the output path contains "textures"
NamedTextures ==
    /\ output_path # <<>>
    /\ output_path[Len(output_path)] # <<".", ".">>
    /\ Contains(ToLower(output_path[Len(output_path)]),
                <<"t", "e", "x", "t", "u", "r", "e", "s">>)

\* C35: a pack that has built has run the texture (DX10) build exactly when
\* its profile is BA2 and the lower-cased file name of the destination
\* contains "textures"; a TES4 BSA profile never runs it; and the builder's
\* format is fixed before any file is read and is not changed by reading.
C35_TextureBuildByDestinationName ==
    /\ [](build_path # "" =>
            /\ (build_path = "build_dx10_with_progress")
                  <=> (IsBa2(game_version) /\ NamedTextures)
            /\ ~IsBa2(game_version) => build_path = "build_with_progress (BSA)")
    /\ [][(builder # "none") => (ba2_format' = ba2_format)]_vars

\* a BA2 pack of two files to a destination named MTextures.ba2 has run the
\* texture build
C35_Witness ==
    /\ build_path = "build_dx10_with_progress"
    /\ IsBa2(game_version)
    /\ Len(output_path) = 2
    /\ Len(adds) = 2
    /\ pack_result # None

(***************************************************************************)
(* Two loads in flight                                                      *)
(***************************************************************************)
\* two loads were started, both succeeded and both closures have run
BothLoadsDelivered ==
    /\ Len(loads) = 2
    /\ \A i \in 1..2 : loads[i].pc = "delivered" /\ loads[i].src.ok

\* C38: when two loads started one after the other have both succeeded and
\* both been delivered, the shared state and the tree shown are those of the
\* load started last, in whatever order the two threads finished.
C38_LastStartedLoadWins ==
    BothLoadsDelivered =>
        /\ shared = LoadFields(loads[2].src)
        /\ loaded_paths = Some(loads[2].src.paths)

(***************************************************************************)
(* The jobs of the window                                                   *)
(***************************************************************************)
\* C36: under fair scheduling, whenever is_processing is true it is false
\* again later: every load, extraction or pack started from the window
\* finishes and its closure resets the property, whether the job succeeds,
\* fails or is cancelled.
C36_ProcessingEventuallyEnds == is_processing ~> ~is_processing

\* C37: every cancellation flag ever created holds false, the one behind the
\* shared state included, no step raises one, and no job ends with Cancelled.
C37_CancelFlagAlwaysFalse ==
    /\ [](/\ \A a \in 1..Len(arcs) : ~arcs[a]
          /\ state_arc \in 1..Len(arcs)
          /\ \A j \in 1..Len(jobs) : jobs[j].result # "Cancelled")
    /\ [][\A a \in 1..Len(arcs) : arcs'[a] = arcs[a]]_vars

\* an extraction started after a reset has handled its files and been
\* delivered, while a load replaced the shared state and its flag
C37_Witness ==
    \E j, k \in 1..Len(jobs) :
        /\ jobs[j].kind = "extract"
        /\ jobs[j].pc = "delivered"
        /\ jobs[j].result = "Ok"
        /\ jobs[k].kind = "load"
        /\ jobs[k].pc = "delivered"
        /\ state_arc # jobs[j].arc

(***************************************************************************)
(* Progress reports of a build                                              *)
(***************************************************************************)
\* C39: a build over n files that has succeeded has invoked the progress
\* callback exactly n times, each time with total = n, and with every value
\* of current from 1 to n exactly once; while the build runs no value of
\* current is reported twice or lies outside 1..n.
C39_ProgressOncePerFile ==
    LET n == Len(bw_entries)
    IN  /\ \A c \in 1..Len(bw_calls) :
              /\ bw_calls[c].total = n
              /\ bw_calls[c].current \in 1..n
              /\ \A d \in 1..Len(bw_calls) :
                    bw_calls[d].current = bw_calls[c].current => d = c
        /\ bw_result = Some("Ok") =>
              /\ Len(bw_calls) = n
              /\ {bw_calls[c].current : c \in 1..Len(bw_calls)} = 1..n

\* a build over three files has succeeded, and a later count was reported
\* before an earlier one
C39_Witness ==
    /\ bw_result = Some("Ok")
    /\ Len(bw_entries) = 3
    /\ Len(bw_calls) = 3
    /\ bw_calls[1].current > bw_calls[2].current

(***************************************************************************)
(* Format classes of the game profiles                                      *)
(***************************************************************************)
\* how many of the three class tests hold for a profile
ClassCount(v) ==
    (IF IsTes3(v) THEN 1 ELSE 0) + (IF IsBa2(v) THEN 1 ELSE 0)
        + (IF BsaVersion(v) # None THEN 1 ELSE 0)

\* the profile is in exactly one class, has a BA2 version exactly when it is
\* BA2, and a pack that takes the BSA branch for it finds a BSA version
OneClass(v) ==
    /\ ClassCount(v) = 1
    /\ (Ba2VersionOf(v) # None) <=> IsBa2(v)
    /\ \A mode \in {"cli", "gui"} :
          PackBranch(mode, v, <<AddPool[1]>>) = "bsa" => BsaVersion(v) # None

\* C40: every profile of the table, and every profile from_index or
\* from_cli_name returns for any index or name, is in exactly one format
\* class (exactly one of is_tes3, is_ba2, bsa_version present), has a
\* ba2_version exactly when is_ba2 holds, and reaches bsa_version().unwrap()
\* in a pack only with a version present.
C40_OneFormatClassPerProfile ==
    /\ \A i \in 1..Len(All) : OneClass(All[i])
    /\ gv_by_index # None => OneClass(gv_by_index[1])
    /\ (gv_by_name # None /\ gv_by_name[1] # None) => OneClass(gv_by_name[1][1])

\* from_index was called with an index beyond the table and from_cli_name
\* with the name of a profile; a pack with the second takes the BSA branch
C40_Witness ==
    /\ gv_by_index # None
    /\ gv_index >= Len(All)
    /\ gv_by_name # None
    /\ gv_by_name[1] # None
    /\ PackBranch("gui", gv_by_name[1][1], <<AddPool[1]>>) = "bsa"

====
